---- MODULE Spec2Model ----
(***************************************************************************)
(* Slide Ship (origoss/kube-pres-fw): the slide lifecycle and navigation   *)
(* manager (SlideManager.ts), the scene that drives it (RoomScene: initial *)
(* load, hot-reload polling, transition callbacks) and the parts of the    *)
(* parser and of the layout engine the manager depends on.                 *)
(*                                                                         *)
(* JavaScript is single threaded: every action below is one handler or one *)
(* continuation run to completion (a timer callback, the code after an     *)
(* await, a tween's onComplete, a call of the manager's public interface). *)
(***************************************************************************)
EXTENDS Integers, Sequences, FiniteSets, TLC

(***************************************************************************)
(* Bounds of the model.                                                    *)
(***************************************************************************)
\* checkForChanges calls that may be in flight at once (the timer fires every
\* 2 s whether or not the previous poll has been answered).
MaxPolls == 1
\* Edits of /slides.md on the server after the page was opened.
MaxEdits == 1
\* Generation identifiers available for live objects; an activation takes the
\* smallest one no variable refers to any more.
MaxGen == 4

(***************************************************************************)
(* Source lines, by the parser's classification (MarkdownParser.parseSlide)*)
(***************************************************************************)
BlankLine == ""
SeparatorLine == "---"
HeadingLine == "# Title"
ParagraphLine == "Some text."
BulletLine == "- item"
NumberedLine == "1. item"
TableLine == "| a | b |"
CrystalLine == "![crystal](a.png)"
StaticLine == "![logo](b.png)"

\* The built-in fallback document of RoomScene.
SAMPLE_PRESENTATION ==
  << BlankLine, HeadingLine, BlankLine, HeadingLine, BlankLine, ParagraphLine,
     BlankLine, ParagraphLine, BlankLine,
     SeparatorLine,
     BlankLine, HeadingLine, BlankLine, NumberedLine, NumberedLine, NumberedLine,
     BlankLine,
     SeparatorLine,
     BlankLine, HeadingLine, BlankLine, BulletLine, BulletLine, BulletLine,
     BlankLine >>

\* Contents /slides.md may have on the server.
FiveSlides ==
  << HeadingLine, SeparatorLine, ParagraphLine, SeparatorLine, BulletLine,
     SeparatorLine, NumberedLine, SeparatorLine, HeadingLine >>
TwoSlides == << HeadingLine, BlankLine, SeparatorLine, TableLine >>
ImageSlides == << CrystalLine, StaticLine, SeparatorLine, HeadingLine, CrystalLine >>
NoSlides == << BlankLine, SeparatorLine, BlankLine >>

ServerTexts == { FiveSlides, TwoSlides, ImageSlides, NoSlides }

(***************************************************************************)
(* MarkdownParser, at the granularity of classified lines.                 *)
(***************************************************************************)
\* The element type a line starts, by parseSlide's precedence (first match).
elementType(line) ==
  IF line = HeadingLine THEN "heading"
  ELSE IF line = BulletLine THEN "bullet"
  ELSE IF line = NumberedLine THEN "numbered"
  ELSE IF line = TableLine THEN "table"
  ELSE "paragraph"

\* SlideElement: the fields the manager and the layout loop read.
SlideElement(type, nRows) == [type |-> type, rows |-> nRows]

\* Number of leading lines of ls that match the table-row pattern.
RECURSIVE tableRows(_)
tableRows(ls) ==
  IF ls # << >> /\ Head(ls) = TableLine THEN 1 + tableRows(Tail(ls)) ELSE 0

\* parseSlide: one left-to-right pass over the lines of a chunk.
RECURSIVE parseLines(_, _)
parseLines(ls, slide) ==
  IF ls = << >> THEN slide
  ELSE LET line == Head(ls) IN
    IF line = BlankLine THEN parseLines(Tail(ls), slide)
    ELSE IF line = CrystalLine
      THEN parseLines(Tail(ls), [slide EXCEPT !.images = @ + 1])
    ELSE IF line = StaticLine
      THEN parseLines(Tail(ls), [slide EXCEPT !.staticImages = @ + 1])
    ELSE IF line = TableLine
      THEN LET n == tableRows(Tail(ls)) IN
           parseLines(SubSeq(ls, n + 2, Len(ls)),
             [slide EXCEPT !.elements = Append(@, SlideElement("table", n))])
    ELSE parseLines(Tail(ls),
           [slide EXCEPT !.elements = Append(@, SlideElement(elementType(line), 0))])

parseSlide(text) ==
  parseLines(text, [elements |-> << >>, images |-> 0, staticImages |-> 0])

\* String.trim on a chunk: leading and trailing blank lines go.
RECURSIVE trimLeft(_)
trimLeft(ls) ==
  IF ls # << >> /\ Head(ls) = BlankLine THEN trimLeft(Tail(ls)) ELSE ls

RECURSIVE trimRight(_)
trimRight(ls) ==
  IF ls # << >> /\ ls[Len(ls)] = BlankLine
  THEN trimRight(SubSeq(ls, 1, Len(ls) - 1)) ELSE ls

trim(ls) == trimRight(trimLeft(ls))

\* markdown.split(/^---$/m): the chunks between separator lines.
RECURSIVE splitSlides(_, _)
splitSlides(ls, chunk) ==
  IF ls = << >> THEN << chunk >>
  ELSE IF Head(ls) = SeparatorLine THEN << chunk >> \o splitSlides(Tail(ls), << >>)
  ELSE splitSlides(Tail(ls), Append(chunk, Head(ls)))

RECURSIVE parseChunks(_)
parseChunks(chunks) ==
  IF chunks = << >> THEN << >>
  ELSE LET t == trim(Head(chunks)) IN
       IF Len(t) > 0 THEN << parseSlide(t) >> \o parseChunks(Tail(chunks))
       ELSE parseChunks(Tail(chunks))

\* MarkdownParser.parse
parse(markdown) == parseChunks(splitSlides(markdown, << >>))

(***************************************************************************)
(* State.                                                                  *)
(***************************************************************************)
VARIABLES
  \* SlideManager
  slides,             \* Slide[]
  currentSlideIndex,  \* 0-based
  textObstacles,      \* the four live-object arrays
  crystals,
  staticImages,
  tables,
  isTransitioning,
  generation,         \* identifier of the objects of the latest activation
  \* Phaser
  alive,              \* the game objects created and not destroyed
  tweens,             \* the running tweens that carry an onComplete of the manager
  \* RoomScene
  phase,              \* "loading" (create: first fetch pending), "running", "failed"
  currentMarkdown,
  lastModified,
  sceneObjects,       \* the scene's textObstacles, crystals, staticImages, tables
  headPending,        \* checkForChanges calls waiting for the HEAD response
  fetchPending,       \* reloadSlides calls waiting for the fetch of loadSlides
  \* the server behind /slides.md
  serverText,
  serverModified,
  \* observation: the handler that ran last and what it did
  event

managerVars ==
  << slides, currentSlideIndex, textObstacles, crystals, staticImages, tables,
     isTransitioning, generation, alive >>

sceneVars ==
  << phase, currentMarkdown, lastModified, sceneObjects, headPending, fetchPending >>

serverVars == << serverText, serverModified >>

vars == << managerVars, tweens, sceneVars, serverVars, event >>

\* The pure functions of the parser, the layout engine, the rich-text decoder
\* and the table sizing are exercised by specifications of their own (below);
\* each keeps the locals of one call in one variable.
VARIABLES
  parser,     \* MarkdownParser.parseSlide: lines, i, elements, images, ...
  laidOut,    \* AutoLayout.layout of the parsed slide
  richText,   \* convertItalic, then parseRichText
  table       \* Table.calculateColumnWidths

\* The interaction state of the sprites of a slide is followed, likewise, by
\* specifications of its own: the fields of the CrystalImage objects and of
\* one TextObstacle, with their pending timers and tweens.
VARIABLES
  crystalImage,
  textObstacle

spriteVars == << crystalImage, textObstacle >>

pureVars == << parser, laidOut, richText, table, crystalImage, textObstacle >>

\* No call of a pure function is being followed.
NoCall == [pc |-> "none"]

PureIdle ==
  /\ parser = NoCall
  /\ laidOut = NoCall
  /\ richText = NoCall
  /\ table = NoCall
  /\ crystalImage = NoCall
  /\ textObstacle = NoCall

\* No sprite is being followed.
SpritesUnused ==
  /\ crystalImage = NoCall
  /\ textObstacle = NoCall

(***************************************************************************)
(* Values.                                                                 *)
(***************************************************************************)
Range(seq) == { seq[k] : k \in 1..Len(seq) }

Min(S) == CHOOSE x \in S : \A y \in S : x <= y

\* JavaScript's undefined (slides[i] for an index outside the array).
Undefined == [elements |-> << >>, images |-> -1, staticImages |-> -1]

\* lastModified before the first successful fetch.
Null == 0

\* SlideObjects with four empty arrays.
NoObjects ==
  [textObstacles |-> << >>, crystals |-> << >>, staticImages |-> << >>,
   tables |-> << >>]

\* The objects a SlideObjects value (or the manager's four arrays) refers to.
ObjectsOf(o) ==
  Range(o.textObstacles) \cup Range(o.crystals) \cup Range(o.staticImages)
    \cup Range(o.tables)

\* A game object: the activation that made it, its class, its place in the slide.
Object(gen, kind, n) == [gen |-> gen, kind |-> kind, n |-> n]

\* The manager's fields (with the game objects they own) as one value, so that
\* a handler's calls compose in program order.
Mgr ==
  [slides |-> slides, currentSlideIndex |-> currentSlideIndex,
   textObstacles |-> textObstacles, crystals |-> crystals,
   staticImages |-> staticImages, tables |-> tables,
   isTransitioning |-> isTransitioning, generation |-> generation,
   alive |-> alive]

SetMgr(st) ==
  /\ slides' = st.slides
  /\ currentSlideIndex' = st.currentSlideIndex
  /\ textObstacles' = st.textObstacles
  /\ crystals' = st.crystals
  /\ staticImages' = st.staticImages
  /\ tables' = st.tables
  /\ isTransitioning' = st.isTransitioning
  /\ generation' = st.generation
  /\ alive' = st.alive

\* What is recorded of a handler's run: which handler, for a transition request
\* its direction and whether it passed the early return, whether an exception
\* left the handler, how often it invoked the caller's onComplete, and
\* response.ok of the fetch it continued from.
Event(op) ==
  [op |-> op, direction |-> 0, accepted |-> TRUE, threw |-> FALSE,
   callbacks |-> 0, fetchOk |-> TRUE]

\* The four public transition methods are recorded alike, by direction.
Request(direction, accepted) ==
  [Event("requestTransition") EXCEPT !.direction = direction, !.accepted = accepted]

(***************************************************************************)
(* AutoLayout                                                              *)
(***************************************************************************)
\* layout(slide) raises a TypeError when it reads a property of undefined:
\* slide.elements of an undefined slide, or element.type in getElementSpacing
\* of slide.elements[-1] when the slide has no element.
\* Undefined is a slide without elements here, so one test covers both.
layoutThrows(slide) == Len(slide.elements) = 0

\* One LayoutElement per element, in order.
layout(slide) ==
  [k \in 1..Len(slide.elements) |->
     [type |-> IF slide.elements[k].type = "table" THEN "table" ELSE "text",
      index |-> k]]

(***************************************************************************)
(* SlideManager                                                            *)
(***************************************************************************)
\* loadMarkdown that also rewinds the presentation to its first slide.
loadMarkdown_Rewinds(st, markdown) ==
  [st EXCEPT !.slides = parse(markdown), !.currentSlideIndex = 0]

\* SlideManager.loadMarkdown
loadMarkdown(st, markdown) == [st EXCEPT !.slides = parse(markdown)]

\* clearCurrentSlide with the loop that destroys the tables left out: the
\* array is replaced while its tables stay in the scene.
clearCurrentSlide_TablesLeak(st) ==
  [st EXCEPT !.alive = @ \ (Range(st.textObstacles) \cup Range(st.crystals)
                              \cup Range(st.staticImages)),
             !.textObstacles = << >>,
             !.crystals = << >>,
             !.staticImages = << >>,
             !.tables = << >>]

\* SlideManager.clearCurrentSlide: destroy every object of the four arrays,
\* then replace each array by a new empty one.
clearCurrentSlide(st) ==
  [st EXCEPT !.alive = @ \ ObjectsOf(st),
             !.textObstacles = << >>,
             !.crystals = << >>,
             !.staticImages = << >>,
             !.tables = << >>]

\* this.slides[this.currentSlideIndex]
currentSlide(st) ==
  IF st.currentSlideIndex \in 0..(Len(st.slides) - 1)
  THEN st.slides[st.currentSlideIndex + 1]
  ELSE Undefined

\* The identifier the next activation gives its objects (new X(...) yields
\* objects distinct from every earlier one): the smallest identifier that is
\* not the previous activation's and that no live object and no handle kept
\* by the scene or by a tween's closure carries.
freshGeneration(st) ==
  LET held == st.alive \cup ObjectsOf(sceneObjects)
                \cup UNION { ObjectsOf(tweens[k].newObjects) : k \in 1..Len(tweens) }
      free == (0..(MaxGen - 1)) \ ({ o.gen : o \in held } \cup { st.generation })
  IN IF free # {} THEN Min(free) ELSE MaxGen

\* The value of the four arrays that createCurrentSlide returns.
slideObjects(st) ==
  [textObstacles |-> st.textObstacles, crystals |-> st.crystals,
   staticImages |-> st.staticImages, tables |-> st.tables]

\* SlideManager.createCurrentSlide. The result holds the manager afterwards,
\* whether the call threw and the SlideObjects it returned.
createCurrentSlide(st) ==
  LET c == clearCurrentSlide(st) IN
  IF Len(c.slides) = 0
  THEN [st |-> c, threw |-> FALSE, objects |-> NoObjects]
  ELSE
    LET slide == currentSlide(c) IN
    IF layoutThrows(slide)
    THEN [st |-> c, threw |-> TRUE, objects |-> NoObjects]
    ELSE
      LET g == freshGeneration(c)
          layoutElements == layout(slide)
          made == [k \in 1..Len(layoutElements) |->
                     Object(g, IF slide.elements[k].type = "table"
                               THEN "Table" ELSE "TextObstacle", k)]
          n == [c EXCEPT
                  !.textObstacles = SelectSeq(made, LAMBDA o : o.kind = "TextObstacle"),
                  !.tables = SelectSeq(made, LAMBDA o : o.kind = "Table"),
                  !.crystals = [k \in 1..slide.images |-> Object(g, "CrystalImage", k)],
                  !.staticImages =
                     [k \in 1..slide.staticImages |-> Object(g, "StaticImage", k)],
                  !.generation = g]
      IN [st |-> [n EXCEPT !.alive = @ \cup ObjectsOf(n)],
          threw |-> FALSE,
          objects |-> slideObjects(n)]

\* reloadCurrentSlide that also releases the transition lock.
reloadCurrentSlide_Unlocks(st) ==
  createCurrentSlide(clearCurrentSlide([st EXCEPT !.isTransitioning = FALSE]))

\* SlideManager.reloadCurrentSlide
reloadCurrentSlide(st) == createCurrentSlide(clearCurrentSlide(st))

\* SlideManager.canGoNext / canGoPrev
canGoNext(st) == st.currentSlideIndex < Len(st.slides) - 1

canGoPrev(st) == st.currentSlideIndex > 0

\* The early return without its test of the lock.
nextRejected_NoLock(st) == ~canGoNext(st)

\* The early return of transitionToNext and transitionToNextWithKeyboard.
nextRejected(st) == ~canGoNext(st) \/ st.isTransitioning

\* The early return of transitionToPrev and transitionToPrevWithKeyboard.
prevRejected(st) == ~canGoPrev(st) \/ st.isTransitioning

\* A tween of the manager: the camera scroll of either variant, or the ship's
\* fly-in of the edge variant, whose closure holds newObjects.
CameraTween(variant, direction) ==
  [stage |-> "camera", variant |-> variant, direction |-> direction,
   newObjects |-> NoObjects]

ShipTween(direction, newObjects) ==
  [stage |-> "ship", variant |-> "edge", direction |-> direction,
   newObjects |-> newObjects]

RemoveAt(seq, i) == SubSeq(seq, 1, i - 1) \o SubSeq(seq, i + 1, Len(seq))

(***************************************************************************)
(* Init: RoomScene.create has run up to the first await of loadSlides; the *)
(* manager's fields have their constructor values.                         *)
(***************************************************************************)
Init ==
  /\ slides = << >>
  /\ currentSlideIndex = 0
  /\ textObstacles = << >>
  /\ crystals = << >>
  /\ staticImages = << >>
  /\ tables = << >>
  /\ isTransitioning = FALSE
  /\ generation = 0
  /\ alive = {}
  /\ tweens = << >>
  /\ phase = "loading"
  /\ currentMarkdown = SAMPLE_PRESENTATION
  /\ lastModified = Null
  /\ sceneObjects = NoObjects
  /\ headPending = 0
  /\ fetchPending = 0
  /\ serverText \in ServerTexts
  /\ serverModified = 1
  /\ event = Event("create")
  /\ PureIdle

(***************************************************************************)
(* RoomScene                                                               *)
(***************************************************************************)
\* loadSlides without the fallback of its else branch and catch block.
loadSlidesMarkdown_NoFallback(ok) == serverText

\* RoomScene.loadSlides, from the answer of fetch on: what it leaves in
\* currentMarkdown and lastModified. ok is response.ok (FALSE also stands for
\* a rejected fetch, which the catch block treats the same way).
loadSlidesMarkdown(ok) == IF ok THEN serverText ELSE SAMPLE_PRESENTATION

loadSlidesModified(ok) == IF ok THEN serverModified ELSE lastModified

\* The continuation of create(): loadSlides settles, then setupSlideManager,
\* setupCollisions, createHUD and startHotReload run. An exception of
\* createCurrentSlide ends the continuation before the scene takes the objects.
Setup(ok) ==
  /\ phase = "loading"
  /\ currentMarkdown' = loadSlidesMarkdown(ok)
  /\ lastModified' = loadSlidesModified(ok)
  /\ LET r == createCurrentSlide(loadMarkdown(Mgr, loadSlidesMarkdown(ok))) IN
       /\ SetMgr(r.st)
       /\ phase' = IF r.threw THEN "failed" ELSE "running"
       /\ sceneObjects' = IF r.threw THEN sceneObjects ELSE r.objects
       /\ event' = [Event("setupSlideManager") EXCEPT !.threw = r.threw, !.fetchOk = ok]
  /\ UNCHANGED << tweens, headPending, fetchPending, serverVars >>

\* The timer of startHotReload fires: checkForChanges sends its HEAD request.
PollTick ==
  /\ phase = "running"
  /\ headPending + fetchPending < MaxPolls
  /\ headPending' = headPending + 1
  /\ event' = Event("checkForChanges")
  /\ UNCHANGED << managerVars, tweens, phase, currentMarkdown, lastModified,
                  sceneObjects, fetchPending, serverVars >>

\* The condition of checkForChanges without its test of isInTransition().
changeDetected_IgnoresLock(ok, newModified) ==
  ok /\ newModified # Null /\ newModified # lastModified

\* The condition under which checkForChanges goes on to reloadSlides.
changeDetected(ok, newModified) ==
  ok /\ newModified # Null /\ newModified # lastModified /\ ~isTransitioning

\* checkForChanges after its await: the HEAD response is compared and, on a
\* change, reloadSlides starts and waits for the fetch of loadSlides.
HeadResponse(ok) ==
  /\ headPending > 0
  /\ headPending' = headPending - 1
  /\ fetchPending' = IF changeDetected(ok, serverModified)
                     THEN fetchPending + 1 ELSE fetchPending
  /\ event' = Event("checkForChanges")
  /\ UNCHANGED << managerVars, tweens, phase, currentMarkdown, lastModified,
                  sceneObjects, serverVars >>

\* reloadSlides after its await: loadSlides settles, then loadMarkdown,
\* reloadCurrentSlide, refreshCollisions. An exception of reloadCurrentSlide
\* is caught by checkForChanges and refreshCollisions does not run.
ReloadSlides(ok) ==
  /\ fetchPending > 0
  /\ fetchPending' = fetchPending - 1
  /\ currentMarkdown' = loadSlidesMarkdown(ok)
  /\ lastModified' = loadSlidesModified(ok)
  /\ LET r == reloadCurrentSlide(loadMarkdown(Mgr, loadSlidesMarkdown(ok))) IN
       /\ SetMgr(r.st)
       /\ sceneObjects' = IF r.threw THEN sceneObjects ELSE r.objects
       /\ event' = [Event("reloadSlides") EXCEPT !.threw = r.threw, !.fetchOk = ok]
  /\ UNCHANGED << tweens, phase, headPending, serverVars >>

\* /slides.md is saved with another content.
EditFile ==
  /\ serverModified <= MaxEdits
  /\ serverText' \in ServerTexts \ { serverText }
  /\ serverModified' = serverModified + 1
  /\ event' = Event("fileSaved")
  /\ UNCHANGED << managerVars, tweens, sceneVars >>

(***************************************************************************)
(* SlideManager: transitions                                               *)
(***************************************************************************)
\* transition / transitionWithKeyboard up to scene.tweens.add.
StartTransition(variant, direction) ==
  /\ isTransitioning' = TRUE
  /\ tweens' = Append(tweens, CameraTween(variant, direction))
  /\ event' = Request(direction, TRUE)
  /\ UNCHANGED << slides, currentSlideIndex, textObstacles, crystals, staticImages,
                  tables, generation, alive, sceneVars, serverVars >>

\* The early return of the four public methods.
Dropped(direction) ==
  /\ event' = Request(direction, FALSE)
  /\ UNCHANGED << managerVars, tweens, sceneVars, serverVars >>

TransitionToNext ==
  /\ phase = "running"
  /\ IF nextRejected(Mgr) THEN Dropped(1) ELSE StartTransition("edge", 1)

TransitionToPrev ==
  /\ phase = "running"
  /\ IF prevRejected(Mgr) THEN Dropped(-1) ELSE StartTransition("edge", -1)

TransitionToNextWithKeyboard ==
  /\ phase = "running"
  /\ IF nextRejected(Mgr) THEN Dropped(1) ELSE StartTransition("keyboard", 1)

TransitionToPrevWithKeyboard ==
  /\ phase = "running"
  /\ IF prevRejected(Mgr) THEN Dropped(-1) ELSE StartTransition("keyboard", -1)

\* The manager after the first statements of either camera onComplete:
\* currentSlideIndex += direction; clearCurrentSlide(); createCurrentSlide().
swapSlide(st, direction) ==
  createCurrentSlide(
    clearCurrentSlide([st EXCEPT !.currentSlideIndex = @ + direction]))

\* onComplete of the camera tween of transition (edge variant): swap, then
\* start the ship's tween, whose onComplete unlocks and calls back.
CameraOnComplete(i) ==
  /\ tweens[i].stage = "camera" /\ tweens[i].variant = "edge"
  /\ LET r == swapSlide(Mgr, tweens[i].direction) IN
       /\ SetMgr(r.st)
       /\ tweens' = IF r.threw THEN RemoveAt(tweens, i)
                    ELSE Append(RemoveAt(tweens, i),
                                ShipTween(tweens[i].direction, r.objects))
       /\ event' = [Event("transition.camera.onComplete") EXCEPT !.threw = r.threw]
  /\ UNCHANGED << sceneVars, serverVars >>

\* onComplete of the ship tween of transition: unlock, then onComplete(newObjects),
\* which in the scene is refreshCollisions and updateHUDSlideInfo.
ShipOnComplete(i) ==
  /\ tweens[i].stage = "ship"
  /\ SetMgr([Mgr EXCEPT !.isTransitioning = FALSE])
  /\ tweens' = RemoveAt(tweens, i)
  /\ sceneObjects' = tweens[i].newObjects
  /\ event' = [Event("transition.ship.onComplete") EXCEPT !.callbacks = 1]
  /\ UNCHANGED << phase, currentMarkdown, lastModified, headPending, fetchPending,
                  serverVars >>

\* The keyboard variant's onComplete with the unlock left out: it swaps and
\* calls back but leaves isTransitioning set.
KeyboardOnComplete_StaysLocked(i) ==
  /\ tweens[i].stage = "camera" /\ tweens[i].variant = "keyboard"
  /\ LET r == swapSlide(Mgr, tweens[i].direction) IN
       /\ SetMgr(r.st)
       /\ sceneObjects' = IF r.threw THEN sceneObjects ELSE r.objects
       /\ event' = [Event("transitionWithKeyboard.onComplete") EXCEPT
                      !.threw = r.threw, !.callbacks = IF r.threw THEN 0 ELSE 1]
  /\ tweens' = RemoveAt(tweens, i)
  /\ UNCHANGED << phase, currentMarkdown, lastModified, headPending, fetchPending,
                  serverVars >>

\* onComplete of the camera tween of transitionWithKeyboard: swap, unlock,
\* onComplete(newObjects).
KeyboardOnComplete(i) ==
  /\ tweens[i].stage = "camera" /\ tweens[i].variant = "keyboard"
  /\ LET r == swapSlide(Mgr, tweens[i].direction) IN
       /\ SetMgr(IF r.threw THEN r.st ELSE [r.st EXCEPT !.isTransitioning = FALSE])
       /\ sceneObjects' = IF r.threw THEN sceneObjects ELSE r.objects
       /\ event' = [Event("transitionWithKeyboard.onComplete") EXCEPT
                      !.threw = r.threw, !.callbacks = IF r.threw THEN 0 ELSE 1]
  /\ tweens' = RemoveAt(tweens, i)
  /\ UNCHANGED << phase, currentMarkdown, lastModified, headPending, fetchPending,
                  serverVars >>

Next ==
  \/ /\ \E ok \in BOOLEAN : Setup(ok)
     /\ UNCHANGED pureVars
  \/ /\ PollTick
     /\ UNCHANGED pureVars
  \/ /\ \E ok \in BOOLEAN : HeadResponse(ok)
     /\ UNCHANGED pureVars
  \/ /\ \E ok \in BOOLEAN : ReloadSlides(ok)
     /\ UNCHANGED pureVars
  \/ /\ EditFile
     /\ UNCHANGED pureVars
  \/ /\ TransitionToNext
     /\ UNCHANGED pureVars
  \/ /\ TransitionToPrev
     /\ UNCHANGED pureVars
  \/ /\ TransitionToNextWithKeyboard
     /\ UNCHANGED pureVars
  \/ /\ TransitionToPrevWithKeyboard
     /\ UNCHANGED pureVars
  \/ /\ \E i \in 1..Len(tweens) : CameraOnComplete(i)
     /\ UNCHANGED pureVars
  \/ /\ \E i \in 1..Len(tweens) : ShipOnComplete(i)
     /\ UNCHANGED pureVars
  \/ /\ \E i \in 1..Len(tweens) : KeyboardOnComplete(i)
     /\ UNCHANGED pureVars

Spec == Init /\ [][Next]_vars

\* The scheduling the hot reload relies on. The timer of startHotReload is
\* periodic and independent of the transitions, so again and again a poll is
\* sent and answered (with an OK response) while no transition is pending;
\* and the fetch of a started reloadSlides settles.
PollSentWhileIdle == PollTick /\ ~isTransitioning /\ UNCHANGED pureVars

PollAnsweredWhileIdle == HeadResponse(TRUE) /\ ~isTransitioning /\ UNCHANGED pureVars

\* A step of ReloadSlides, by what it does to the two counts of pending
\* requests: it alone takes a pending reloadSlides and leaves the polls.
ReloadSettles ==
  /\ fetchPending > 0
  /\ fetchPending' = fetchPending - 1
  /\ headPending' = headPending

FairSpec ==
  /\ Spec
  /\ SF_vars(PollSentWhileIdle)
  /\ SF_vars(PollAnsweredWhileIdle)
  /\ WF_<< fetchPending, headPending >>(ReloadSettles)

(***************************************************************************)
(* Properties of the lifecycle and navigation manager.                     *)
(***************************************************************************)
\* The step was the completion handler of a camera tween (either variant).
CameraCompletionStep ==
  event'.op \in { "transition.camera.onComplete", "transitionWithKeyboard.onComplete" }

\* The step changed currentSlideIndex; the step released the lock.
indexChanged == currentSlideIndex' # currentSlideIndex

unlocked == isTransitioning /\ ~isTransitioning'

\* The four arrays hold one object per element and image spec of the slide.
holdsObjectsOf(slide) ==
  /\ Len(textObstacles) + Len(tables) = Len(slide.elements)
  /\ Len(crystals) = slide.images
  /\ Len(staticImages) = slide.staticImages

\* C1: a transition request (any of the four public methods) made while an
\* accepted transition is pending (isTransitioning) is dropped: the step
\* changes no field of the manager (currentSlideIndex, the lock, the live
\* objects), registers no second tween, so no second continuation and no
\* second callback can follow, invokes no callback and leaves the scene's
\* handles alone; at most one continuation is ever pending.
C1_LockedRequestDropped ==
  [][ /\ (isTransitioning /\ event'.op = "requestTransition")
          => /\ ~event'.accepted
             /\ event'.callbacks = 0
             /\ UNCHANGED << managerVars, tweens, sceneObjects >>
      /\ Len(tweens') <= 1 ]_vars

\* C1 witness: a request for the next slide was dropped although the index
\* permitted it, with the first transition's continuation still pending.
C1_Witness ==
  /\ isTransitioning
  /\ Len(tweens) = 1
  /\ event.op = "requestTransition" /\ event.direction = 1 /\ ~event.accepted
  /\ canGoNext(Mgr)

\* C2: once the document is loaded, 0 <= currentSlideIndex < slides.length
\* whenever slides.length > 0.
C2_IndexInRange ==
  (phase # "loading" /\ Len(slides) > 0)
    => currentSlideIndex \in 0..(Len(slides) - 1)

\* C3: a reload (loadMarkdown, then reloadCurrentSlide) that installs a
\* non-empty document leaves currentSlideIndex at the smaller of its old value
\* and the new document's last index.
C3_ReloadClampsIndex ==
  [][ (event'.op = "reloadSlides" /\ Len(slides') > 0)
        => currentSlideIndex' = Min({ currentSlideIndex, Len(slides') - 1 }) ]_vars

\* C4: the game objects that exist undestroyed are exactly the objects in the
\* manager's four arrays, and all of them were made by the latest activation
\* that made any; objects of earlier activations are all destroyed.
C4_OneGeneration ==
  /\ alive = ObjectsOf(Mgr)
  /\ \A o \in alive : o.gen = generation

\* C4 witness: a later activation (a reload or a transition's swap) replaced
\* a non-empty generation, and handles of a destroyed generation still exist
\* (in the scene or in a tween's closure).
C4_Witness ==
  /\ event.op \in { "reloadSlides", "transition.camera.onComplete",
                    "transitionWithKeyboard.onComplete" }
  /\ ~event.threw
  /\ alive # {}
  /\ \E o \in ObjectsOf(sceneObjects) : o \notin alive

\* C5: when the renderer completes the camera tween of an accepted
\* transition and the document has a slide at the target index, whatever its
\* content, the handler moves currentSlideIndex by one, activates the slide
\* without raising, and the transition ends unlocked with exactly one
\* callback that carries the manager's new handles: in that very step
\* (keyboard variant) or through the ship tween it has started (edge variant).
C5_CompletionUnlocks ==
  [][ (CameraCompletionStep /\ currentSlide(Mgr)' # Undefined)
        => /\ ~event'.threw
           /\ \E d \in { 1, -1 } : currentSlideIndex' = currentSlideIndex + d
           /\ \/ /\ ~isTransitioning'
                 /\ event'.callbacks = 1
                 /\ sceneObjects' = slideObjects(Mgr)'
              \/ \E k \in 1..Len(tweens') :
                   /\ tweens'[k].stage = "ship"
                   /\ tweens'[k].newObjects = slideObjects(Mgr)' ]_vars

\* C6: the polling caller runs reloadSlides' loadMarkdown and
\* reloadCurrentSlide only while the manager is not transitioning.
C6_NoReloadWhileTransitioning ==
  [][ event'.op = "reloadSlides" => ~isTransitioning ]_vars

C8_SwapAtomic ==
  (phase # "loading" /\ Len(slides) > 0 /\ currentSlide(Mgr) # Undefined)
    => holdsObjectsOf(currentSlide(Mgr))

\* C9: a reload whose fetch failed leaves the manager's document as it was.
C9_FailedReloadKeepsDocument ==
  [][ (event'.op = "reloadSlides" /\ ~event'.fetchOk) => slides' = slides ]_vars

\* C10: with a non-empty document, canGoNext() is true iff currentSlideIndex
\* is not the last index and canGoPrev() is true iff it is not 0; a request
\* in a direction that is not permitted changes nothing.
C10_CanGoIffNotAtEnd ==
  [][ /\ Len(slides) > 0
          => /\ canGoNext(Mgr) <=> currentSlideIndex # Len(slides) - 1
             /\ canGoPrev(Mgr) <=> currentSlideIndex # 0
      /\ ( /\ event'.op = "requestTransition"
           /\ \/ event'.direction = 1 /\ ~canGoNext(Mgr)
              \/ event'.direction = -1 /\ ~canGoPrev(Mgr) )
          => /\ ~event'.accepted
             /\ UNCHANGED << managerVars, tweens, sceneObjects >> ]_vars

\* C11: when the first fetch of the slide resource fails (non-OK answer or a
\* rejected fetch), setup loads the built-in sample document into the
\* manager, which therefore holds at least one slide afterwards.
C11_InitialFailureLoadsSample ==
  [][ (event'.op = "setupSlideManager" /\ ~event'.fetchOk) =>
        /\ currentMarkdown' = SAMPLE_PRESENTATION
        /\ slides' = parse(SAMPLE_PRESENTATION)
        /\ Len(slides') >= 1
        /\ ~event'.threw ]_vars

C11_Witness ==
  /\ event.op = "setupSlideManager"
  /\ ~event.fetchOk
  /\ serverText = NoSlides
  /\ phase = "running"
  /\ Len(slides) = 3
  /\ currentSlide(Mgr) # Undefined
  /\ holdsObjectsOf(currentSlide(Mgr))

\* C21: isTransitioning becomes true only in the step of an accepted
\* transition request, which registers that transition's camera tween, and
\* becomes false only in the completion handler that ends the one pending
\* tween (the ship tween's onComplete, the keyboard variant's camera
\* onComplete); setup, polls, reloads (loadMarkdown, reloadCurrentSlide,
\* createCurrentSlide), saves of the file and dropped requests leave it alone.
C21_LockHeldUntilCompletion ==
  [][ /\ (isTransitioning /\ ~isTransitioning')
          => /\ event'.op \in { "transition.ship.onComplete",
                                "transitionWithKeyboard.onComplete" }
             /\ Len(tweens) = 1 /\ tweens' = << >>
      /\ (~isTransitioning /\ isTransitioning')
          => /\ event'.op = "requestTransition" /\ event'.accepted
             /\ tweens' = Append(tweens, tweens'[Len(tweens')])
      /\ event'.op \in { "setupSlideManager", "checkForChanges", "reloadSlides",
                         "fileSaved", "transition.camera.onComplete" }
          => isTransitioning' = isTransitioning
      /\ (event'.op = "requestTransition" /\ ~event'.accepted)
          => isTransitioning' = isTransitioning ]_vars

\* C21 witness: a reload ran between the acceptance of a transition and its
\* completion, and the manager is still locked with the tween pending.
C21_Witness ==
  /\ event.op = "reloadSlides" /\ ~event.threw
  /\ isTransitioning
  /\ Len(tweens) = 1
  /\ alive # {}

\* C22: in a setup or a reload, the manager as loadMarkdown leaves it (before
\* createCurrentSlide or reloadCurrentSlide runs) differs from the manager
\* before the handler in slides only, which is the parse of the document:
\* currentSlideIndex, isTransitioning, the four arrays and the live objects
\* are as they were.
C22_LoadMarkdownReplacesSlidesOnly ==
  [][ event'.op \in { "setupSlideManager", "reloadSlides" }
        => LET loaded == loadMarkdown(Mgr, currentMarkdown') IN
           /\ loaded.slides = parse(currentMarkdown')
           /\ [loaded EXCEPT !.slides = slides] = Mgr
           /\ slides' = loaded.slides
           /\ event'.threw \/ currentSlideIndex' = loaded.currentSlideIndex ]_vars

\* C22 witness: a reload installed another document while the manager showed
\* a slide after the first one, with objects alive.
C22_Witness ==
  /\ event.op = "reloadSlides" /\ ~event.threw
  /\ currentSlideIndex > 0
  /\ slides = parse(currentMarkdown)
  /\ currentMarkdown # SAMPLE_PRESENTATION
  /\ serverModified > 1
  /\ alive # {}

\* C29: the handles a transition hands to its onComplete callback are the
\* manager's live objects when the callback runs: the scene receives exactly
\* the manager's four arrays, every object in them exists, and no object of
\* the manager is missing from them.
C29_CallbackGetsLiveObjects ==
  [][ event'.callbacks = 1
        => /\ sceneObjects' = slideObjects(Mgr)'
           /\ ObjectsOf(sceneObjects') \subseteq alive'
           /\ ObjectsOf(Mgr)' \subseteq ObjectsOf(sceneObjects') ]_vars

\* A source change is waiting while a transition is pending: the resource's
\* last-modified differs from the one of the loaded document and no reload
\* has been started.
changeDeferred ==
  /\ phase = "running"
  /\ isTransitioning
  /\ serverModified # lastModified
  /\ fetchPending = 0

\* C30: a poll answered while the manager is transitioning changes neither
\* lastModified nor the document nor the manager and starts no reload; and
\* when polls keep being sent and answered and the manager keeps returning
\* to idle (its transitions complete), a change that waited during a
\* transition is detected by a later poll, which starts reloadSlides, and a
\* started reloadSlides is performed.
C30_DeferredChangeReloaded ==
  /\ [][ (headPending' < headPending /\ isTransitioning)
           => /\ lastModified' = lastModified
              /\ fetchPending' = fetchPending
              /\ currentMarkdown' = currentMarkdown
              /\ UNCHANGED managerVars ]_vars
  /\ ([]<>(~isTransitioning)) => (changeDeferred ~> (fetchPending > 0))
  /\ (fetchPending > 0) ~> (event.op = "reloadSlides")

\* C30 witness: the file was saved after the document was loaded, and the
\* poll that would have seen the new last-modified was answered while a
\* transition was pending.
C30_Witness ==
  /\ changeDeferred
  /\ event.op = "checkForChanges" /\ headPending = 0
  /\ lastModified # Null /\ serverModified > lastModified
  /\ Len(tweens) = 1

(***************************************************************************)
(* Strings, as sequences of one-character strings, and the String methods  *)
(* and regular expressions the parser applies to them.                     *)
(***************************************************************************)
\* \s, for the characters that occur in the inputs below.
Whitespace == { " ", "\t" }

Digits == << "0", "1", "2", "3", "4", "5", "6", "7", "8", "9" >>

DigitSet == { Digits[d] : d \in 1..Len(Digits) }

\* String.startsWith, String.endsWith
startsWith(s, p) == Len(s) >= Len(p) /\ SubSeq(s, 1, Len(p)) = p

endsWith(s, p) == Len(s) >= Len(p) /\ SubSeq(s, Len(s) - Len(p) + 1, Len(s)) = p

\* s.slice(n) and s.slice(0, -n)
dropFirst(s, n) == SubSeq(s, n + 1, Len(s))

dropLast(s, n) == SubSeq(s, 1, Len(s) - n)

\* Length of the longest run of characters of C that starts at s[from]: what
\* a greedy C* takes there.
span(s, from, C) ==
  CHOOSE n \in 0..(Len(s) - from + 1) :
    /\ \A k \in from..(from + n - 1) : s[k] \in C
    /\ (from + n > Len(s) \/ s[from + n] \notin C)

\* The same for a negated class [^X].
spanNot(s, from, X) ==
  CHOOSE n \in 0..(Len(s) - from + 1) :
    /\ \A k \in from..(from + n - 1) : s[k] \notin X
    /\ (from + n > Len(s) \/ s[from + n] \in X)

\* String.trim
trimString(s) ==
  LET a == span(s, 1, Whitespace) IN
  IF a = Len(s) THEN << >>
  ELSE LET b == CHOOSE n \in 0..Len(s) :
                  /\ \A k \in (Len(s) - n + 1)..Len(s) : s[k] \in Whitespace
                  /\ s[Len(s) - n] \notin Whitespace
       IN SubSeq(s, a + 1, Len(s) - b)

\* s.indexOf(sub, from): 0-based, -1 when there is none.
indexOf(s, sub, from) ==
  LET hits == { k \in from..(Len(s) - Len(sub)) :
                  SubSeq(s, k + 1, k + Len(sub)) = sub }
  IN IF hits = {} THEN -1 ELSE Min(hits)

\* s.split(c) for a one-character separator.
RECURSIVE split(_, _)
split(s, c) ==
  LET n == spanNot(s, 1, { c }) IN
  IF n = Len(s) THEN << s >>
  ELSE << SubSeq(s, 1, n) >> \o split(dropFirst(s, n + 1), c)

\* parseInt(digits, 10) of a run of decimal digits.
RECURSIVE parseInt(_)
parseInt(ds) ==
  IF ds = << >> THEN 0
  ELSE 10 * parseInt(dropLast(ds, 1))
       + ((CHOOSE d \in 1..Len(Digits) : Digits[d] = ds[Len(ds)]) - 1)

\* String(n) of a non-negative integer.
RECURSIVE toString(_)
toString(n) ==
  IF n < 10 THEN << Digits[n + 1] >>
  ELSE toString(n \div 10) \o << Digits[(n % 10) + 1] >>

\* convertBold: text.replace(/\*\*([^*]+)\*\*/g, '{b}$1{/b}'), scanning from
\* the left; where the pattern does not match, the character is kept.
RECURSIVE convertBold(_)
convertBold(text) ==
  IF text = << >> THEN << >>
  ELSE
    LET n == IF startsWith(text, << "*", "*" >>) THEN spanNot(text, 3, { "*" }) ELSE 0 IN
    IF n >= 1 /\ startsWith(dropFirst(text, 2 + n), << "*", "*" >>)
    THEN << "{", "b", "}" >> \o SubSeq(text, 3, 2 + n) \o << "{", "/", "b", "}" >>
         \o convertBold(dropFirst(text, 4 + n))
    ELSE << Head(text) >> \o convertBold(Tail(text))

\* The second replace of convertItalic: /\*{1}([^*]+)\*{1}/g to {i}$1{/i}.
RECURSIVE replaceItalic(_)
replaceItalic(text) ==
  IF text = << >> THEN << >>
  ELSE
    LET n == IF Head(text) = "*" THEN spanNot(text, 2, { "*" }) ELSE 0 IN
    IF n >= 1 /\ startsWith(dropFirst(text, 1 + n), << "*" >>)
    THEN << "{", "i", "}" >> \o SubSeq(text, 2, 1 + n) \o << "{", "/", "i", "}" >>
         \o replaceItalic(dropFirst(text, 2 + n))
    ELSE << Head(text) >> \o replaceItalic(Tail(text))

\* convertItalic: bold first, then italic.
convertItalic(text) == replaceItalic(convertBold(text))

(***************************************************************************)
(* MarkdownParser, character by character: the patterns of parseSlide.     *)
(***************************************************************************)
NoMatch == [matched |-> FALSE]

\* What \s+(.+)$ captures from position from on (a run of whitespace, then
\* at least one character): the text after the whitespace, or, when the line
\* ends in the whitespace, its last character, which \s+ gives back.
restAfterSpaces(line, from) ==
  LET ws == span(line, from, Whitespace) IN
  IF from + ws <= Len(line) THEN dropFirst(line, from + ws - 1)
  ELSE dropFirst(line, Len(line) - 1)

\* \s+(.+)$ matches at position from.
spacesThenText(line, from) ==
  from + 1 <= Len(line) /\ line[from] \in Whitespace

\* line.match(/^(#{1,3})\s+(.+)$/)
headingMatch(line) ==
  LET h == span(line, 1, { "#" }) IN
  IF h \in 1..3 /\ spacesThenText(line, h + 1)
  THEN [matched |-> TRUE, level |-> h, content |-> restAfterSpaces(line, h + 1)]
  ELSE NoMatch

\* line.match(/^(\s*)[-*]\s+(.+)$/)
bulletMatch(line) ==
  LET lead == span(line, 1, Whitespace) IN
  IF /\ lead + 1 <= Len(line)
     /\ line[lead + 1] \in { "-", "*" }
     /\ spacesThenText(line, lead + 2)
  THEN [matched |-> TRUE, level |-> lead \div 2,
        content |-> restAfterSpaces(line, lead + 2)]
  ELSE NoMatch

\* line.match(/^(\s*)(\d+)\.\s+(.+)$/)
numberedMatch(line) ==
  LET lead == span(line, 1, Whitespace)
      d == span(line, lead + 1, DigitSet)
  IN
  IF /\ d >= 1
     /\ lead + d + 1 <= Len(line)
     /\ line[lead + d + 1] = "."
     /\ spacesThenText(line, lead + d + 2)
  THEN [matched |-> TRUE, level |-> lead \div 2,
        digits |-> SubSeq(line, lead + 1, lead + d),
        content |-> restAfterSpaces(line, lead + d + 2)]
  ELSE NoMatch

\* line.match(/^\|(.+)\|$/)
tableMatch(line) ==
  Len(line) >= 3 /\ line[1] = "|" /\ line[Len(line)] = "|"

\* lines[i].match(/^\|[-:|\s]+\|$/)
separatorMatch(line) ==
  /\ tableMatch(line)
  /\ \A k \in 2..(Len(line) - 1) : line[k] \in ({ "-", ":", "|" } \cup Whitespace)

\* The tests of the continuation loops on the next line.
startsHeading(line) ==
  LET h == span(line, 1, { "#" }) IN
  h \in 1..3 /\ h + 1 <= Len(line) /\ line[h + 1] \in Whitespace

startsBullet(line) ==
  LET lead == span(line, 1, Whitespace) IN
  /\ lead + 2 <= Len(line)
  /\ line[lead + 1] \in { "-", "*" }
  /\ line[lead + 2] \in Whitespace

startsNumbered(line) ==
  LET lead == span(line, 1, Whitespace)
      d == span(line, lead + 1, DigitSet)
  IN /\ d >= 1
     /\ lead + d + 2 <= Len(line)
     /\ line[lead + d + 1] = "."
     /\ line[lead + d + 2] \in Whitespace

startsImage(line) == startsWith(line, << "!", "[" >>)

\* The backquote (U+0060), which a string of this notation cannot hold: the
\* tilde stands for it, and no input below contains a tilde of its own.
Backquote == "~"

\* line.startsWith of three backquotes
startsFence(line) == startsWith(line, << Backquote, Backquote, Backquote >>)

\* /^!\[([^\]]*)\]\(([^)]+)\)(?:\{([^}]+)\})?$/ on the trimmed line: the alt
\* text, the file name and the attribute list ('' when there is none).
imageMatch(t) ==
  IF ~startsWith(t, << "!", "[" >>) THEN NoMatch
  ELSE
    LET a == spanNot(t, 3, { "]" })
        f == IF startsWith(dropFirst(t, 2 + a), << "]", "(" >>)
             THEN spanNot(t, 5 + a, { ")" }) ELSE 0
        after == dropFirst(t, 4 + a + f)      \* from the ")" on
    IN
    IF f = 0 \/ ~startsWith(after, << ")" >>) THEN NoMatch
    ELSE IF Len(after) = 1
      THEN [matched |-> TRUE, alt |-> SubSeq(t, 3, 2 + a),
            filename |-> SubSeq(t, 5 + a, 4 + a + f), attrs |-> << >>]
    ELSE IF /\ Len(after) >= 4
            /\ after[2] = "{"
            /\ spanNot(after, 3, { "}" }) = Len(after) - 3
            /\ after[Len(after)] = "}"
      THEN [matched |-> TRUE, alt |-> SubSeq(t, 3, 2 + a),
            filename |-> SubSeq(t, 5 + a, 4 + a + f),
            attrs |-> SubSeq(after, 3, Len(after) - 1)]
    ELSE NoMatch

\* /^!\[crystal\]\(([^)]+)\)(?:\{([^}]+)\})?$/
crystalImageMatch(t) ==
  LET m == imageMatch(t) IN
  IF m.matched /\ m.alt = << "c", "r", "y", "s", "t", "a", "l" >> THEN m ELSE NoMatch

\* line.includes('[crystal]')
includesCrystal(line) ==
  indexOf(line, << "[", "c", "r", "y", "s", "t", "a", "l", "]" >>, 0) # -1

staticImageMatch(line) ==
  LET m == imageMatch(trimString(line)) IN
  IF m.matched /\ ~includesCrystal(line) THEN m ELSE NoMatch

\* An optional field that was not set.
Unset == -1

\* key\s*[=:]\s*(\d+) matches with key starting at attrs[p]: the captured
\* digits, << >> when it does not match there.
attrAt(attrs, p, key) ==
  IF ~startsWith(dropFirst(attrs, p - 1), key) THEN << >>
  ELSE
    LET q == p + Len(key)
        a == span(attrs, q, Whitespace)
    IN
    IF q + a > Len(attrs) \/ attrs[q + a] \notin { "=", ":" } THEN << >>
    ELSE LET b == span(attrs, q + a + 1, Whitespace)
             d == span(attrs, q + a + 1 + b, DigitSet)
         IN SubSeq(attrs, q + a + 1 + b, q + a + b + d)

\* attrs.match(/key\s*[=:]\s*(\d+)/) for a key with the given spellings, the
\* longer first (w(?:idth)? tries "width", then "w"): the leftmost match, and
\* parseInt of its digits.
attrMatch(attrs, spellings) ==
  LET hit(p) == \E k \in 1..Len(spellings) : attrAt(attrs, p, spellings[k]) # << >>
      ps == { p \in 1..Len(attrs) : hit(p) }
  IN
  IF ps = {} THEN Unset
  ELSE LET p == Min(ps)
           k == Min({ j \in 1..Len(spellings) : attrAt(attrs, p, spellings[j]) # << >> })
       IN parseInt(attrAt(attrs, p, spellings[k]))

xMatch(attrs) == attrMatch(attrs, << << "x" >> >>)

yMatch(attrs) == attrMatch(attrs, << << "y" >> >>)

crystalXMatch(attrs) == attrMatch(attrs, << << "c", "x" >> >>)

crystalYMatch(attrs) == attrMatch(attrs, << << "c", "y" >> >>)

widthMatch(attrs) == attrMatch(attrs, << << "w", "i", "d", "t", "h" >>, << "w" >> >>)

heightMatch(attrs) == attrMatch(attrs, << << "h", "e", "i", "g", "h", "t" >>, << "h" >> >>)

\* SlideImage and StaticImage as parseSlide fills them.
SlideImage(m) ==
  [filename |-> trimString(m.filename),
   x |-> xMatch(m.attrs), y |-> yMatch(m.attrs),
   crystalX |-> crystalXMatch(m.attrs), crystalY |-> crystalYMatch(m.attrs),
   width |-> widthMatch(m.attrs), height |-> heightMatch(m.attrs)]

StaticImage(m) ==
  [filename |-> trimString(m.filename),
   x |-> xMatch(m.attrs), y |-> yMatch(m.attrs),
   width |-> widthMatch(m.attrs), height |-> heightMatch(m.attrs)]

(***************************************************************************)
(* parseSlide as a state machine: one action per iteration of its for loop,*)
(* by the branch the iteration takes. parser holds the locals of the call; *)
(* parser.log records, for every line the call consumes, the line's index  *)
(* and what it was consumed as.                                            *)
(***************************************************************************)
\* Lines of a chunk between two separator lines.
MaxLines == 3

HeadingSlash == << "#", " ", "T", "\\" >>
BulletSpaces == << "-", " ", "b", " ", " " >>
NumberedZero == << "0", ".", " ", "n", " ", " " >>
NumberedTwelve == << "1", "2", ".", " ", "n" >>
ParagraphSpaces == << "p", " ", " " >>
ParagraphSlash == << "p", "\\" >>
TextIndented == << " ", "t" >>
Empty == << >>
Fence == << Backquote, Backquote, Backquote >>
TableRow == << "|", "a", "|", "b", "|" >>
TableSeparator == << "|", "-", "|", "-", "|" >>
TableEmptyCell == << "|", "a", "|", "|", "b", "|" >>
CrystalAttrs ==
  << "!", "[", "c", "r", "y", "s", "t", "a", "l", "]", "(", "a", ")",
     "{", "c", "x", "=", "5", " ", "c", "y", "=", "6", "}" >>
StaticAttrs ==
  << "!", "[", "l", "]", "(", "b", ")",
     "{", "w", "i", "d", "t", "h", "=", "7", " ", "z", "=", "1", " ", "y", "=", "}" >>

ChunkLines ==
  { HeadingSlash, BulletSpaces, NumberedZero, NumberedTwelve, ParagraphSpaces,
    ParagraphSlash, TextIndented, Empty, Fence, TableRow, TableSeparator,
    TableEmptyCell, CrystalAttrs, StaticAttrs }

Chunks == UNION { [1..n -> ChunkLines] : n \in 1..MaxLines }

\* The whitespace at the start, at the end of a string removed.
trimStart(s) == dropFirst(s, span(s, 1, Whitespace))

trimEnd(s) ==
  dropLast(s, CHOOSE n \in 0..Len(s) :
                /\ \A k \in (Len(s) - n + 1)..Len(s) : s[k] \in Whitespace
                /\ (n = Len(s) \/ s[Len(s) - n] \notin Whitespace))

\* s.trim() on a chunk, then text.split('\n'): the whitespace-only lines at
\* both ends go, and so does the whitespace that starts the first remaining
\* line and that ends the last one.
chunkLines(chunk) ==
  LET keep == { k \in 1..Len(chunk) : trimString(chunk[k]) # << >> } IN
  IF keep = {} THEN << >>
  ELSE
    LET first == Min(keep)
        last == CHOOSE k \in keep : \A j \in keep : j <= k
        n == last - first + 1
    IN [k \in 1..n |->
          LET l == chunk[first + k - 1]
              l1 == IF k = 1 THEN trimStart(l) ELSE l
          IN IF k = n THEN trimEnd(l1) ELSE l1]

\* lines[i], 0-based as in the source.
lineAt(lines, i) == lines[i + 1]

\* A SlideElement; the optional fields a branch does not set are Unset.
Element(type, content) ==
  [type |-> type, content |-> content, level |-> Unset, number |-> Unset,
   headers |-> << >>, rows |-> << >>]

\* An entry of parser.log.
Consumed(i, role) == [line |-> i, role |-> role]

\* while (i < lines.length - 1) with a guard that lets the loop look past the
\* last line.
hasNext_PastEnd(lines, i) == i < Len(lines)

\* The guard of the four continuation loops: while (i < lines.length - 1).
hasNext(lines, i) == i < Len(lines) - 1

\* content.match(/\*\*/g): the matches, found from the left, do not overlap.
RECURSIVE countBold(_)
countBold(content) ==
  IF Len(content) < 2 THEN 0
  ELSE IF startsWith(content, << "*", "*" >>) THEN 1 + countBold(dropFirst(content, 2))
  ELSE countBold(Tail(content))

\* content.replace(/\*\*/g, '')
RECURSIVE withoutBold(_)
withoutBold(content) ==
  IF content = << >> THEN << >>
  ELSE IF startsWith(content, << "*", "*" >>) THEN withoutBold(dropFirst(content, 2))
  ELSE << Head(content) >> \o withoutBold(Tail(content))

hasUnclosedBold(content) == countBold(content) % 2 # 0

hasUnclosedItalic(content) ==
  Cardinality({ k \in 1..Len(withoutBold(content)) : withoutBold(content)[k] = "*" }) % 2 # 0

endsWithBackslash(content) == endsWith(content, << "\\" >>)

endsWithTwoSpaces(content) == endsWith(content, << " ", " " >>)

\* The condition under which a continuation loop goes on; only the paragraph
\* loop looks at unclosed emphasis.
wantsContinuation(kind, content) ==
  \/ endsWithBackslash(content)
  \/ endsWithTwoSpaces(content)
  \/ kind = "paragraph" /\ (hasUnclosedBold(content) \/ hasUnclosedItalic(content))

\* "Remove the continuation marker".
stripMarker(content) ==
  IF endsWithBackslash(content) THEN dropLast(content, 1)
  ELSE IF endsWithTwoSpaces(content) THEN dropLast(content, 2)
  ELSE content

\* "Stop if next line starts a new element": the heading loop has no test for
\* a numbered item, the other three have it.
startsNewElement(kind, nextLine) ==
  \/ startsHeading(nextLine)
  \/ startsBullet(nextLine)
  \/ kind # "heading" /\ startsNumbered(nextLine)
  \/ startsImage(nextLine)
  \/ startsFence(nextLine)
  \/ trimString(nextLine) = << >>

\* The continuation loop of the heading, bullet, numbered and paragraph
\* branches: the value of i and of content when it ends, and the lines it
\* consumed. Reading lines[i + 1] past the end gives undefined, and the
\* call of match on it throws.
RECURSIVE continuation(_, _, _, _)
continuation(kind, lines, i, content) ==
  IF ~hasNext(lines, i) \/ ~wantsContinuation(kind, content)
  THEN [i |-> i, content |-> content, log |-> << >>, threw |-> FALSE]
  ELSE IF i + 1 >= Len(lines)
    THEN [i |-> i, content |-> stripMarker(content), log |-> << >>, threw |-> TRUE]
  ELSE
    LET nextLine == lineAt(lines, i + 1) IN
    IF startsNewElement(kind, nextLine)
    THEN [i |-> i, content |-> stripMarker(content), log |-> << >>, threw |-> FALSE]
    ELSE
      LET r == continuation(kind, lines, i + 1,
                            stripMarker(content) \o << "\n" >> \o trimString(nextLine))
      IN [r EXCEPT !.log = << Consumed(i + 1, "continuation") >> \o @]

\* The branch an iteration of the for loop takes on lines[i], in the order of
\* the tests of parseSlide.
branch(p) ==
  LET line == lineAt(p.lines, p.i) IN
  IF startsFence(line) THEN "fence"
  ELSE IF p.inCodeBlock THEN "code"
  ELSE IF trimString(line) = << >> THEN "empty"
  ELSE IF crystalImageMatch(trimString(line)).matched THEN "crystal"
  ELSE IF staticImageMatch(line).matched THEN "static"
  ELSE IF headingMatch(line).matched THEN "heading"
  ELSE IF bulletMatch(line).matched THEN "bullet"
  ELSE IF numberedMatch(line).matched THEN "numbered"
  ELSE IF tableMatch(line) THEN "table"
  ELSE "paragraph"

\* The for loop is about to run its body on lines[i] and takes branch b.
iterates(b) ==
  /\ parser.pc = "line"
  /\ parser.i < Len(parser.lines)
  /\ branch(parser) = b

\* codeContent.join('\n')
RECURSIVE join(_)
join(ls) ==
  IF ls = << >> THEN << >>
  ELSE IF Len(ls) = 1 THEN ls[1]
  ELSE ls[1] \o << "\n" >> \o join(Tail(ls))

\* A line that starts with three backquotes opens a code block, or closes the
\* open one and emits its element.
ToggleCodeBlock ==
  /\ iterates("fence")
  /\ parser' =
       IF parser.inCodeBlock
       THEN [parser EXCEPT
               !.elements = Append(@, Element("code", join(parser.codeContent))),
               !.codeContent = << >>,
               !.inCodeBlock = FALSE,
               !.log = Append(@, Consumed(parser.i, "fenceClose")),
               !.i = @ + 1]
       ELSE [parser EXCEPT
               !.inCodeBlock = TRUE,
               !.log = Append(@, Consumed(parser.i, "fenceOpen")),
               !.i = @ + 1]
  /\ UNCHANGED << vars, spriteVars, laidOut, richText, table >>

PushCodeLine ==
  /\ iterates("code")
  /\ parser' = [parser EXCEPT
                  !.codeContent = Append(@, lineAt(parser.lines, parser.i)),
                  !.log = Append(@, Consumed(parser.i, "fenceInterior")),
                  !.i = @ + 1]
  /\ UNCHANGED << vars, spriteVars, laidOut, richText, table >>

SkipEmptyLine ==
  /\ iterates("empty")
  /\ parser' = [parser EXCEPT
                  !.log = Append(@, Consumed(parser.i, "empty")),
                  !.i = @ + 1]
  /\ UNCHANGED << vars, spriteVars, laidOut, richText, table >>

PushCrystalImage ==
  /\ iterates("crystal")
  /\ parser' = [parser EXCEPT
                  !.images = Append(@, SlideImage(crystalImageMatch(
                                trimString(lineAt(parser.lines, parser.i))))),
                  !.log = Append(@, Consumed(parser.i, "image")),
                  !.i = @ + 1]
  /\ UNCHANGED << vars, spriteVars, laidOut, richText, table >>

PushStaticImage ==
  /\ iterates("static")
  /\ parser' = [parser EXCEPT
                  !.staticImages = Append(@, StaticImage(staticImageMatch(
                                      lineAt(parser.lines, parser.i)))),
                  !.log = Append(@, Consumed(parser.i, "image")),
                  !.i = @ + 1]
  /\ UNCHANGED << vars, spriteVars, laidOut, richText, table >>

\* The end of a heading, bullet, numbered or paragraph iteration: the
\* continuation loop, then elements.push and the i++ of the for loop.
pushText(p, element) ==
  LET r == continuation(element.type, p.lines, p.i, element.content) IN
  IF r.threw THEN [p EXCEPT !.pc = "threw"]
  ELSE [p EXCEPT
          !.elements = Append(@, [element EXCEPT !.content = convertItalic(r.content)]),
          !.log = (@ \o << Consumed(p.i, "element") >>) \o r.log,
          !.i = r.i + 1]

PushHeading ==
  /\ iterates("heading")
  /\ LET m == headingMatch(lineAt(parser.lines, parser.i)) IN
       parser' = pushText(parser, [Element("heading", m.content) EXCEPT !.level = m.level])
  /\ UNCHANGED << vars, spriteVars, laidOut, richText, table >>

PushBullet ==
  /\ iterates("bullet")
  /\ LET m == bulletMatch(lineAt(parser.lines, parser.i)) IN
       parser' = pushText(parser, [Element("bullet", m.content) EXCEPT !.level = m.level])
  /\ UNCHANGED << vars, spriteVars, laidOut, richText, table >>

PushNumbered ==
  /\ iterates("numbered")
  /\ LET m == numberedMatch(lineAt(parser.lines, parser.i)) IN
       parser' = pushText(parser, [Element("numbered", m.content) EXCEPT
                                     !.level = m.level, !.number = parseInt(m.digits)])
  /\ UNCHANGED << vars, spriteVars, laidOut, richText, table >>

PushParagraph ==
  /\ iterates("paragraph")
  /\ parser' = pushText(parser,
                        Element("paragraph", trimString(lineAt(parser.lines, parser.i))))
  /\ UNCHANGED << vars, spriteVars, laidOut, richText, table >>

\* s.split('|').map(c => c.trim())
cells(s) ==
  LET parts == split(s, "|") IN [k \in 1..Len(parts) |-> trimString(parts[k])]

\* The data-row loop of the table branch, entered with index i: the number of
\* lines from lines[i] on whose trimmed text matches /^\|(.+)\|$/.
RECURSIVE dataRows(_, _)
dataRows(lines, i) ==
  IF i < Len(lines) /\ tableMatch(trimString(lineAt(lines, i)))
  THEN 1 + dataRows(lines, i + 1)
  ELSE 0

\* The table branch without its "i--" after the data-row loop.
tableEnd_NoBackUp(sep, n) == sep + n

\* The value of i when the table branch ends, the data-row loop having begun
\* at index sep and consumed n rows: "i--; // Back up one".
tableEnd(sep, n) == (sep + n) - 1

\* A table: the header line, the separator line when one follows, then the
\* data rows; the element is pushed after the rows were read.
PushTable ==
  /\ iterates("table")
  /\ LET lines == parser.lines
         line == lineAt(lines, parser.i)
         headers == SelectSeq(cells(SubSeq(line, 2, Len(line) - 1)),
                              LAMBDA h : h # << >>)
         i1 == parser.i + 1
         hasSeparator == i1 < Len(lines) /\ separatorMatch(lineAt(lines, i1))
         i2 == IF hasSeparator THEN i1 + 1 ELSE i1
         n == dataRows(lines, i2)
         rows == [k \in 1..n |->
                    LET rowLine == trimString(lineAt(lines, i2 + k - 1)) IN
                    cells(SubSeq(rowLine, 2, Len(rowLine) - 1))]
     IN parser' =
          [parser EXCEPT
             !.elements = Append(@, [Element("table", << >>) EXCEPT
                  !.headers = [k \in 1..Len(headers) |-> convertItalic(headers[k])],
                  !.rows = [k \in 1..n |->
                              [c \in 1..Len(rows[k]) |-> convertItalic(rows[k][c])]]]),
             !.log = (@ \o << Consumed(parser.i, "element") >>)
                     \o (IF hasSeparator THEN << Consumed(i1, "separator") >> ELSE << >>)
                     \o [k \in 1..n |-> Consumed(i2 + k - 1, "row")],
             !.i = tableEnd(i2, n) + 1]
  /\ UNCHANGED << vars, spriteVars, laidOut, richText, table >>

\* i reached lines.length: return { elements, images, staticImages }.
ReturnSlide ==
  /\ parser.pc = "line"
  /\ parser.i >= Len(parser.lines)
  /\ parser' = [parser EXCEPT !.pc = "returned"]
  /\ UNCHANGED << vars, spriteVars, laidOut, richText, table >>

\* The Slide a finished call returned.
returnedSlide ==
  [elements |-> parser.elements, images |-> parser.images,
   staticImages |-> parser.staticImages]

(***************************************************************************)
(* AutoLayout on the parsed slide.                                         *)
(***************************************************************************)
\* The bullet sign U+2022, written as an ASCII character.
BulletSign == "o"

\* const number = element.number || 1: 0 and undefined are falsy.
numberOrOne(n) == IF n = Unset \/ n = 0 THEN 1 ELSE n

\* AutoLayout.layoutElement: the content and the table marker.
layoutElement(element) ==
  [type |-> IF element.type = "table" THEN "table" ELSE "text",
   content |->
     CASE element.type = "bullet" -> << BulletSign, " " >> \o element.content
       [] element.type = "numbered" ->
            toString(numberOrOne(element.number)) \o << ".", " " >> \o element.content
       [] element.type = "table" -> << >>
       [] OTHER -> element.content]

\* AutoLayout.layout of the slide parseSlide returned.
Layout ==
  /\ parser.pc = "returned"
  /\ laidOut.pc = "none"
  /\ laidOut' =
       IF layoutThrows(returnedSlide)
       THEN [pc |-> "threw", elements |-> << >>]
       ELSE [pc |-> "returned",
             elements |-> [k \in 1..Len(parser.elements) |->
                             layoutElement(parser.elements[k])]]
  /\ UNCHANGED << vars, spriteVars, parser, richText, table >>

(***************************************************************************)
(* The parser and the layout engine on every chunk of at most MaxLines     *)
(* lines over ChunkLines.                                                  *)
(***************************************************************************)
\* The scene and its manager take no part: their variables keep the values
\* of Init, with an empty resource behind /slides.md.
SceneUnused ==
  /\ slides = << >>
  /\ currentSlideIndex = 0
  /\ textObstacles = << >>
  /\ crystals = << >>
  /\ staticImages = << >>
  /\ tables = << >>
  /\ isTransitioning = FALSE
  /\ generation = 0
  /\ alive = {}
  /\ tweens = << >>
  /\ phase = "loading"
  /\ currentMarkdown = SAMPLE_PRESENTATION
  /\ lastModified = Null
  /\ sceneObjects = NoObjects
  /\ headPending = 0
  /\ fetchPending = 0
  /\ serverText = NoSlides
  /\ serverModified = 1
  /\ event = Event("create")

\* parse has split the text and trimmed a chunk that is not empty, and
\* parseSlide is entered with it.
ParserInit ==
  /\ SceneUnused
  /\ SpritesUnused
  /\ \E chunk \in Chunks :
       /\ chunkLines(chunk) # << >>
       /\ parser = [pc |-> "line", lines |-> chunkLines(chunk), i |-> 0,
                    elements |-> << >>, images |-> << >>, staticImages |-> << >>,
                    inCodeBlock |-> FALSE, codeContent |-> << >>, log |-> << >>]
  /\ laidOut = NoCall
  /\ richText = NoCall
  /\ table = NoCall

ParserNext ==
  \/ ToggleCodeBlock
  \/ PushCodeLine
  \/ SkipEmptyLine
  \/ PushCrystalImage
  \/ PushStaticImage
  \/ PushHeading
  \/ PushBullet
  \/ PushNumbered
  \/ PushTable
  \/ PushParagraph
  \/ ReturnSlide
  \/ Layout

ParserSpec == ParserInit /\ [][ParserNext]_<< vars, pureVars >>

(***************************************************************************)
(* Properties of the parser and of the layout engine.                      *)
(***************************************************************************)
allVars == << vars, pureVars >>

\* The branch parseSlide takes on a line outside a code block.
lineKind(line) == branch([lines |-> << line >>, i |-> 0, inCodeBlock |-> FALSE])

\* The iteration about to run is one of the four with a continuation loop.
textIteration ==
  /\ parser.pc = "line"
  /\ parser.i < Len(parser.lines)
  /\ branch(parser) \in { "heading", "bullet", "numbered", "paragraph" }

\* The content the iteration starts its continuation loop with.
firstContent ==
  LET line == lineAt(parser.lines, parser.i) IN
  CASE branch(parser) = "heading" -> headingMatch(line).content
    [] branch(parser) = "bullet" -> bulletMatch(line).content
    [] branch(parser) = "numbered" -> numberedMatch(line).content
    [] OTHER -> trimString(line)

\* The element the step pushed.
pushed == parser'.elements[Len(parser'.elements)]

\* The roles under which the call consumed its lines so far.
roles == [k \in 1..Len(parser.log) |-> parser.log[k].role]

\* C12: parseSlide returns without raising for every chunk: each iteration of
\* the for loop, with the continuation loop or the table-row loop it runs,
\* moves the line index forward by at least one and never past the number of
\* lines, and the call returns when the index has reached that number.
C12_ParseTerminates ==
  [][ parser.pc = "line" =>
        /\ parser'.pc \in { "line", "returned" }
        /\ parser'.lines = parser.lines
        /\ parser'.pc = "line" =>
             /\ parser'.i > parser.i
             /\ parser'.i <= Len(parser.lines)
        /\ parser'.pc = "returned" =>
             /\ parser.i = Len(parser.lines)
             /\ parser'.i = parser.i ]_allVars

C12_Witness ==
  /\ parser.pc = "returned"
  /\ parser.i = Len(parser.lines)
  /\ Len(parser.lines) = MaxLines
  /\ roles = << "element", "element", "continuation" >>
  /\ parser.elements[1].type = "table"

\* The line is blank, or the call consumed it inside a code block.
outOfScope(k) ==
  \/ trimString(parser.lines[k]) = << >>
  \/ roles[k] = "fenceInterior"

\* C13 (as claimed): of the lines of a slide that are not blank and not
\* inside a fenced code block, each produces exactly one element or is merged
\* into the content of the element an earlier line started; none is dropped.
C13_EveryLineYieldsOrMerges ==
  parser.pc = "returned" =>
    \A k \in 1..Len(parser.lines) :
      ~outOfScope(k) => roles[k] \in { "element", "image", "continuation", "row" }

\* C13 (amended): the call consumes every line of the slide exactly once and
\* in order. A line that is not blank and not inside a code block starts
\* exactly one element or one image entry, or is taken by the element the
\* nearest earlier starting line began (as a continuation, a table separator
\* or a table row), or is a fence line; the separator line and the opening
\* fence line leave nothing in the result, the closing fence line emits the
\* code element.
C13_EveryLineConsumedOnce ==
  parser.pc \in { "line", "returned" } =>
    /\ Len(parser.log) = parser.i
    /\ \A k \in 1..Len(parser.log) : parser.log[k].line = k - 1
    /\ Len(parser.elements) =
         Cardinality({ k \in 1..Len(roles) : roles[k] \in { "element", "fenceClose" } })
    /\ Len(parser.images) + Len(parser.staticImages) =
         Cardinality({ k \in 1..Len(roles) : roles[k] = "image" })
    /\ \A k \in 1..Len(roles) :
         /\ roles[k] = "empty" <=>
              (trimString(parser.lines[k]) = << >> /\ roles[k] # "fenceInterior")
         /\ roles[k] \in { "continuation", "separator", "row" } =>
              /\ k > 1
              /\ roles[k - 1] \in { "element", "continuation", "separator", "row" }
         /\ roles[k] = "separator" => roles[k - 1] = "element"
         /\ roles[k] = "fenceInterior" =>
              \E j \in 1..(k - 1) : roles[j] = "fenceOpen"

C13_Witness ==
  /\ parser.pc = "returned"
  /\ parser.lines = << TableRow, TableSeparator, TableRow >>
  /\ roles = << "element", "separator", "row" >>
  /\ Len(parser.elements) = 1
  /\ Len(parser.elements[1].rows) = 1

\* The step is a text iteration whose content asks for continuation while
\* the next line is one parseSlide itself classifies as b.
continuationBefore(kinds) ==
  /\ textIteration
  /\ wantsContinuation(branch(parser), firstContent)
  /\ parser.i + 1 < Len(parser.lines)
  /\ lineKind(lineAt(parser.lines, parser.i + 1)) \in kinds

\* C14: when heading, bullet, numbered or paragraph content asks for
\* continuation and the next line is blank or starts a heading, a bullet, a
\* numbered item, an image or a code fence, the marker is stripped, nothing
\* is appended and the next line is left to be classified on its own.
C14_ContinuationStopsAtBoundary ==
  [][ continuationBefore({ "empty", "heading", "bullet", "numbered", "crystal",
                           "static", "fence" }) =>
        /\ parser'.i = parser.i + 1
        /\ pushed.content = convertItalic(stripMarker(firstContent)) ]_allVars

\* C15: when a heading, bullet, numbered or paragraph line ends with two
\* spaces or a backslash and the next line is ordinary text, the next line is
\* consumed and appended, trimmed, after a newline: one element, not two.
C15_MarkedLineTakesNextLine ==
  [][ ( /\ textIteration
        /\ parser.i + 1 < Len(parser.lines)
        /\ \/ endsWithTwoSpaces(lineAt(parser.lines, parser.i))
           \/ endsWithBackslash(lineAt(parser.lines, parser.i))
        /\ lineKind(lineAt(parser.lines, parser.i + 1)) \in { "paragraph", "table" } ) =>
        /\ parser'.i >= parser.i + 2
        /\ Len(parser'.elements) = Len(parser.elements) + 1
        /\ startsWith(pushed.content,
                      convertItalic(stripMarker(firstContent) \o << "\n" >>
                        \o trimString(lineAt(parser.lines, parser.i + 1)))) ]_allVars

\* C16: layout returns, without raising, one LayoutElement per SlideElement
\* of the slide and in the same order, a table giving one placeholder; also
\* for a slide without elements.
C16_LayoutOnePerElement ==
  laidOut.pc # "none" =>
    /\ laidOut.pc = "returned"
    /\ Len(laidOut.elements) = Len(parser.elements)
    /\ \A k \in 1..Len(laidOut.elements) :
         (laidOut.elements[k].type = "table") <=> (parser.elements[k].type = "table")

\* The 0-based index of the line that started the k-th element.
startLine(k) ==
  LET starts == { j \in 1..Len(roles) : roles[j] \in { "element", "fenceClose" } }
      j == CHOOSE j \in starts : Cardinality({ h \in starts : h <= j }) = k
  IN parser.log[j].line

\* C18: a numbered item written with the number n gives an element whose
\* number is n and a laid-out content that begins with n, a full stop and a
\* space: the written number is never replaced by another.
C18_WrittenNumberKept ==
  laidOut.pc = "returned" =>
    \A k \in 1..Len(parser.elements) :
      parser.elements[k].type = "numbered" =>
        LET written == numberedMatch(lineAt(parser.lines, startLine(k))).digits IN
        /\ toString(parser.elements[k].number) = written
        /\ startsWith(laidOut.elements[k].content, written \o << ".", " " >>)

\* The keys of an attribute list: what stands before "=" or ":" in each of
\* its space-separated attributes.
keysIn(attrs) ==
  LET tokens == split(attrs, " ") IN
  { SubSeq(tokens[k], 1, spanNot(tokens[k], 1, { "=", ":" })) : k \in 1..Len(tokens) }

\* The step is the iteration that pushes a crystal or a static image.
imageIteration(kind) ==
  /\ parser.pc = "line"
  /\ parser.i < Len(parser.lines)
  /\ branch(parser) = kind

\* The attribute list of the image line of the step.
lineAttrs == imageMatch(trimString(lineAt(parser.lines, parser.i))).attrs

\* C20: in an image attribute list a field is set only by its own key: x and
\* y by x and y, crystalX and crystalY by cx and cy, width by w or width,
\* height by h or height; a field whose key is not in the list stays unset.
C20_FieldSetOnlyByOwnKey ==
  [][ /\ imageIteration("crystal") =>
           LET img == parser'.images[Len(parser'.images)]
               keys == keysIn(lineAttrs)
           IN /\ img.x # Unset => << "x" >> \in keys
              /\ img.y # Unset => << "y" >> \in keys
              /\ img.crystalX # Unset => << "c", "x" >> \in keys
              /\ img.crystalY # Unset => << "c", "y" >> \in keys
              /\ img.width # Unset =>
                   keys \cap { << "w" >>, << "w", "i", "d", "t", "h" >> } # {}
              /\ img.height # Unset =>
                   keys \cap { << "h" >>, << "h", "e", "i", "g", "h", "t" >> } # {}
      /\ imageIteration("static") =>
           LET img == parser'.staticImages[Len(parser'.staticImages)]
               keys == keysIn(lineAttrs)
           IN /\ img.x # Unset => << "x" >> \in keys
              /\ img.y # Unset => << "y" >> \in keys
              /\ img.width # Unset =>
                   keys \cap { << "w" >>, << "w", "i", "d", "t", "h" >> } # {}
              /\ img.height # Unset =>
                   keys \cap { << "h" >>, << "h", "e", "i", "g", "h", "t" >> } # {} ]_allVars

(***************************************************************************)
(* Table.calculateColumnWidths. The text widths come from the renderer's   *)
(* measurement; the call gets, for every column, the largest width it      *)
(* measured among the header and the cells of the column. A scaled width   *)
(* w * (SLIDE_WIDTH / total) is kept exact, as the numerator over total.   *)
(***************************************************************************)
PADDING_X == 15
MIN_COL_WIDTH == 60
MAX_COL_WIDTH == 500
SLIDE_WIDTH == 1280 - 160

\* Columns of a table.
MaxCols == 4
\* Widths calculateTextWidth may report for the widest text of a column.
MeasuredWidths == { 0, 200, 600 }

Max(a, b) == IF a >= b THEN a ELSE b

RECURSIVE sum(_)
sum(ws) == IF ws = << >> THEN 0 ELSE Head(ws) + sum(Tail(ws))

\* "Add padding and apply min/max constraints"
optimalWidth(maxWidth) ==
  LET padded == maxWidth + (PADDING_X * 2)
      atLeast == Max(padded, MIN_COL_WIDTH)
  IN IF atLeast <= MAX_COL_WIDTH THEN atLeast ELSE MAX_COL_WIDTH

\* The three returns of calculateColumnWidths, as numerators over
\* totalOptimalWidth: scaled down with the floor of MIN_COL_WIDTH, scaled up,
\* or unchanged.
calculateColumnWidths(maxWidths) ==
  LET colWidths == [c \in 1..Len(maxWidths) |-> optimalWidth(maxWidths[c])]
      totalOptimalWidth == sum(colWidths)
  IN [colWidths |-> colWidths,
      total |-> totalOptimalWidth,
      widths |->
        IF totalOptimalWidth > SLIDE_WIDTH
        THEN [c \in 1..Len(colWidths) |->
                Max(colWidths[c] * SLIDE_WIDTH, MIN_COL_WIDTH * totalOptimalWidth)]
        ELSE IF totalOptimalWidth < SLIDE_WIDTH
        THEN [c \in 1..Len(colWidths) |-> colWidths[c] * SLIDE_WIDTH]
        ELSE [c \in 1..Len(colWidths) |-> colWidths[c] * totalOptimalWidth]]

CalculateColumnWidths ==
  /\ table.pc = "called"
  /\ table' = [pc |-> "returned", maxWidths |-> table.maxWidths,
               result |-> calculateColumnWidths(table.maxWidths)]
  /\ UNCHANGED << vars, spriteVars, parser, laidOut, richText >>

TableInit ==
  /\ SceneUnused
  /\ SpritesUnused
  /\ parser = NoCall
  /\ laidOut = NoCall
  /\ richText = NoCall
  /\ \E n \in 1..MaxCols : \E maxWidths \in [1..n -> MeasuredWidths] :
       table = [pc |-> "called", maxWidths |-> maxWidths,
                result |-> [colWidths |-> << >>, total |-> 0, widths |-> << >>]]

TableNext == CalculateColumnWidths

TableSpec == TableInit /\ [][TableNext]_allVars

\* C17: when the clamped column widths add up to more than the usable width
\* 1120, the returned widths are the clamped widths times the one factor
\* 1120 / total, they add up to 1120, and none is below 60 unless 60 times
\* the number of columns exceeds 1120.
C17_ScaledDownToUsableWidth ==
  (table.pc = "returned" /\ table.result.total > SLIDE_WIDTH) =>
    LET r == table.result
        n == Len(r.widths)
    IN /\ \A c \in 1..n : r.colWidths[c] \in MIN_COL_WIDTH..MAX_COL_WIDTH
       /\ \A c \in 1..n : r.widths[c] = r.colWidths[c] * SLIDE_WIDTH
       /\ sum(r.widths) = SLIDE_WIDTH * r.total
       /\ MIN_COL_WIDTH * n <= SLIDE_WIDTH =>
            \A c \in 1..n : r.widths[c] >= MIN_COL_WIDTH * r.total

(***************************************************************************)
(* Rich text: the parser encodes emphasis with convertItalic, the text     *)
(* object decodes the tags with parseRichText (TextObstacle.ts).           *)
(***************************************************************************)
\* Length of the generated markup texts.
MaxMarkup == 5

\* "**bold *nested* end**"
BoldNested ==
  << "*", "*", "b", "o", "l", "d", " ", "*", "n", "e", "s", "t", "e", "d", "*", " ", "e", "n", "d", "*", "*" >>

\* "*unterminated"
Unterminated ==
  << "*", "u", "n", "t", "e", "r", "m", "i", "n", "a", "t", "e", "d" >>

\* The two texts above and every text of at most MaxMarkup characters over
\* an asterisk and a letter.
Markups ==
  { BoldNested, Unterminated }
    \cup UNION { [1..n -> { "*", "a" }] : n \in 1..MaxMarkup }

\* remaining.slice(from, to), 0-based, to excluded.
slice(s, from, to) == SubSeq(s, from + 1, to)

TextSegment(text, bold, italic) == [text |-> text, bold |-> bold, italic |-> italic]

BoldTag == << "{", "b", "}" >>
ItalicTag == << "{", "i", "}" >>
BoldEnd == << "{", "/", "b", "}" >>
ItalicEnd == << "{", "/", "i", "}" >>

\* parseRichText: one pass of the while loop, then the rest of the text.
RECURSIVE parseRichText(_)
parseRichText(remaining) ==
  IF Len(remaining) = 0 THEN << >>
  ELSE
    LET boldStart == indexOf(remaining, BoldTag, 0)
        italicStart == indexOf(remaining, ItalicTag, 0)
        tagType ==
          IF boldStart # -1 /\ italicStart # -1
          THEN (IF boldStart < italicStart THEN "bold" ELSE "italic")
          ELSE IF boldStart # -1 THEN "bold"
          ELSE IF italicStart # -1 THEN "italic"
          ELSE "null"
        nextTagIndex ==
          IF tagType = "bold" THEN boldStart
          ELSE IF tagType = "italic" THEN italicStart
          ELSE -1
    IN
    IF nextTagIndex = -1 THEN << TextSegment(remaining, FALSE, FALSE) >>
    ELSE
      LET before ==
            IF nextTagIndex > 0
            THEN << TextSegment(slice(remaining, 0, nextTagIndex), FALSE, FALSE) >>
            ELSE << >>
          endTag == IF tagType = "bold" THEN BoldEnd ELSE ItalicEnd
          tagEnd == indexOf(remaining, endTag, nextTagIndex)
      IN
      IF tagEnd = -1
      THEN before \o << TextSegment(slice(remaining, nextTagIndex, Len(remaining)),
                                    FALSE, FALSE) >>
      ELSE
        LET styledText == slice(remaining, nextTagIndex + 3, tagEnd)
            nested == parseRichText(styledText)
            styled ==
              IF Len(styledText) = 0 THEN << >>
              ELSE IF \/ indexOf(styledText, BoldTag, 0) # -1
                      \/ indexOf(styledText, ItalicTag, 0) # -1
              THEN [k \in 1..Len(nested) |->
                      TextSegment(nested[k].text,
                                  tagType = "bold" \/ nested[k].bold,
                                  tagType = "italic" \/ nested[k].italic)]
              ELSE << TextSegment(styledText, tagType = "bold", tagType = "italic") >>
        IN (before \o styled)
           \o parseRichText(slice(remaining, tagEnd + 4, Len(remaining)))

\* The parser converts the content of an element.
Encode ==
  /\ richText.pc = "markup"
  /\ richText' = [richText EXCEPT !.pc = "encoded", !.encoded = convertItalic(richText.text)]
  /\ UNCHANGED << vars, spriteVars, parser, laidOut, table >>

\* The text object decodes the content it was given.
Decode ==
  /\ richText.pc = "encoded"
  /\ richText' = [richText EXCEPT !.pc = "decoded",
                                  !.segments = parseRichText(richText.encoded)]
  /\ UNCHANGED << vars, spriteVars, parser, laidOut, table >>

RichTextInit ==
  /\ SceneUnused
  /\ SpritesUnused
  /\ parser = NoCall
  /\ laidOut = NoCall
  /\ table = NoCall
  /\ \E text \in Markups :
       richText = [pc |-> "markup", text |-> text, encoded |-> << >>, segments |-> << >>]

RichTextNext == Encode \/ Decode

RichTextSpec == RichTextInit /\ [][RichTextNext]_allVars

\* C19: "**bold *nested* end**", encoded and then decoded, gives the three
\* segments "bold " (bold), "nested" (bold and italic) and " end" (bold);
\* "*unterminated" gives one plain segment with the text as written.
C19_NestedEmphasisDecoded ==
  richText.pc = "decoded" =>
    /\ richText.text = BoldNested =>
         richText.segments =
           << TextSegment(<< "b", "o", "l", "d", " " >>, TRUE, FALSE),
              TextSegment(<< "n", "e", "s", "t", "e", "d" >>, TRUE, TRUE),
              TextSegment(<< " ", "e", "n", "d" >>, TRUE, FALSE) >>
    /\ richText.text = Unterminated =>
         richText.segments = << TextSegment(Unterminated, FALSE, FALSE) >>

(***************************************************************************)
(* Further properties of the parser: table cells, markers on the last line.*)
(***************************************************************************)
\* The iteration about to run is the table branch.
tableIteration ==
  /\ parser.pc = "line"
  /\ parser.i < Len(parser.lines)
  /\ branch(parser) = "table"

\* The cells of a table line: the text between the enclosing pipes, split at
\* the pipes, every cell trimmed.
lineCells(line) == cells(SubSeq(trimString(line), 2, Len(trimString(line)) - 1))

\* A list of cells without the empty cells at its two ends.
RECURSIVE withoutEmptyEnds(_)
withoutEmptyEnds(cs) ==
  IF cs = << >> THEN cs
  ELSE IF cs[1] = << >> THEN withoutEmptyEnds(Tail(cs))
  ELSE IF cs[Len(cs)] = << >> THEN withoutEmptyEnds(SubSeq(cs, 1, Len(cs) - 1))
  ELSE cs

\* C25: the headers of a table are the trimmed cells of its first line with
\* the empty cells removed at the two ends only (an empty cell between two
\* others is kept); each data row keeps all the cells of its line, empty
\* ones included, whatever the number of headers.
C25_HeaderKeepsInnerEmptyCells ==
  [][ tableIteration =>
        LET line == lineAt(parser.lines, parser.i)
            kept == withoutEmptyEnds(lineCells(line))
            rowLog == SelectSeq(SubSeq(parser'.log, parser.i + 1, Len(parser'.log)),
                                LAMBDA c : c.role = "row")
        IN /\ pushed.type = "table"
           /\ pushed.headers = [k \in 1..Len(kept) |-> convertItalic(kept[k])]
           /\ Len(pushed.rows) = Len(rowLog)
           /\ \A r \in 1..Len(rowLog) :
                LET cs == lineCells(lineAt(parser.lines, rowLog[r].line)) IN
                pushed.rows[r] = [k \in 1..Len(cs) |-> convertItalic(cs[k])] ]_allVars

\* C26: when the last line of a slide is a heading, a bullet, a numbered item
\* or a paragraph whose content ends with a backslash, the element pushed for
\* it does not end with the backslash.
C26_MarkerOnLastLineDropped ==
  [][ ( /\ textIteration
        /\ parser.i = Len(parser.lines) - 1
        /\ endsWithBackslash(firstContent) ) =>
        /\ parser'.pc = "line"
        /\ parser'.i = Len(parser.lines)
        /\ ~endsWithBackslash(pushed.content)
        /\ pushed.content = convertItalic(stripMarker(firstContent)) ]_allVars

(***************************************************************************)
(* AutoLayout.layout: the vertical positions. Positions are kept in half   *)
(* pixels (twice the value of y), since the centering offset halves an     *)
(* integer.                                                                *)
(***************************************************************************)
\* The configuration SlideManager constructs its AutoLayout with.
DEFAULT_CONFIG == [width |-> 1280, height |-> 720, padding |-> 80]

\* Elements of a slide handed to layout.
MaxElements == 3

\* element.content.split('\n').length
lineCount(content) == Len(split(content, "\n"))

\* getElementHeight with a paragraph's height counted per line of content.
getElementHeight_ParagraphPerLine(element) ==
  CASE element.type = "heading" ->
         (IF element.level = 1 THEN 70 ELSE IF element.level = 2 THEN 50 ELSE 40)
           * lineCount(element.content)
    [] element.type \in { "bullet", "numbered" } -> 35 * lineCount(element.content)
    [] element.type = "table" -> 40 + Len(element.rows) * 40
    [] element.type = "code" -> lineCount(element.content) * 24 + 20
    [] OTHER -> 35 * lineCount(element.content)

\* AutoLayout.getElementHeight
getElementHeight(element) ==
  CASE element.type = "heading" ->
         (IF element.level = 1 THEN 70 ELSE IF element.level = 2 THEN 50 ELSE 40)
           * lineCount(element.content)
    [] element.type \in { "bullet", "numbered" } -> 35 * lineCount(element.content)
    [] element.type = "table" -> 40 + Len(element.rows) * 40
    [] element.type = "code" -> lineCount(element.content) * 24 + 20
    [] OTHER -> 35

\* AutoLayout.getElementSpacing
getElementSpacing(element) ==
  CASE element.type = "heading" -> (IF element.level = 1 THEN 40 ELSE 25)
    [] element.type \in { "bullet", "numbered" } -> 15
    [] element.type = "code" -> 30
    [] element.type = "table" -> 20
    [] OTHER -> 20

\* currentY when the loop of layout reaches the element after the first k.
RECURSIVE currentY(_, _)
currentY(elements, k) ==
  IF k = 0 THEN DEFAULT_CONFIG.padding
  ELSE currentY(elements, k - 1)
       + getElementHeight(elements[k]) + getElementSpacing(elements[k])

\* The y (in half pixels) of the LayoutElements layout returns for a slide
\* with at least one element: the pass, then the centering of short content.
layoutY(slide) ==
  LET elements == slide.elements
      n == Len(elements)
      totalHeight == currentY(elements, n) - getElementSpacing(elements[n])
      offset2 ==
        IF totalHeight < DEFAULT_CONFIG.height - DEFAULT_CONFIG.padding * 2
        THEN (DEFAULT_CONFIG.height - totalHeight) - 2 * DEFAULT_CONFIG.padding
        ELSE 0
  IN [k \in 1..n |-> 2 * currentY(elements, k - 1) + offset2]

\* n lines of code, joined.
codeContent(n) == join([k \in 1..n |-> << "c" >>])

\* The elements the slides are made of: every type, one and several lines of
\* content, and a code block and a table tall enough to fill the canvas.
LayoutElements ==
  { [Element("heading", << "T" >>) EXCEPT !.level = 1],
    [Element("heading", << "a", "\n", "b" >>) EXCEPT !.level = 2],
    [Element("heading", << "h" >>) EXCEPT !.level = 3],
    [Element("bullet", << "b" >>) EXCEPT !.level = 0],
    [Element("numbered", << "n", "\n", "m" >>) EXCEPT !.level = 0, !.number = 2],
    Element("paragraph", << "p", "\n", "q" >>),
    Element("code", codeContent(19)),
    [Element("table", << >>) EXCEPT
       !.headers = << << "x" >> >>, !.rows = [k \in 1..11 |-> << << "v" >> >>]] }

LayoutInit ==
  /\ SceneUnused
  /\ SpritesUnused
  /\ parser = NoCall
  /\ richText = NoCall
  /\ table = NoCall
  /\ \E n \in 0..MaxElements :
       \E elements \in [1..n -> LayoutElements] :
         laidOut = [pc |-> "layout",
                    slide |-> [elements |-> elements, images |-> << >>,
                               staticImages |-> << >>]]

\* One call of layout(slide).
LayoutSlide ==
  /\ laidOut.pc = "layout"
  /\ laidOut' =
       IF layoutThrows(laidOut.slide)
       THEN [pc |-> "threw", slide |-> laidOut.slide, y |-> << >>]
       ELSE [pc |-> "returned", slide |-> laidOut.slide, y |-> layoutY(laidOut.slide)]
  /\ UNCHANGED << vars, spriteVars, parser, richText, table >>

LayoutNext == LayoutSlide

LayoutSpec == LayoutInit /\ [][LayoutNext]_<< vars, pureVars >>

\* Height and spacing of an element as the specification tabulates them.
statedHeight(element) ==
  CASE element.type = "heading" /\ element.level = 1 -> 70 * lineCount(element.content)
    [] element.type = "heading" /\ element.level = 2 -> 50 * lineCount(element.content)
    [] element.type = "heading" /\ element.level = 3 -> 40 * lineCount(element.content)
    [] element.type = "bullet" -> 35 * lineCount(element.content)
    [] element.type = "numbered" -> 35 * lineCount(element.content)
    [] element.type = "code" -> 24 * lineCount(element.content) + 20
    [] element.type = "table" -> 40 + 40 * Len(element.rows)
    [] element.type = "paragraph" -> 35

statedSpacing(element) ==
  CASE element.type = "heading" /\ element.level = 1 -> 40
    [] element.type = "heading" /\ element.level # 1 -> 25
    [] element.type \in { "bullet", "numbered" } -> 15
    [] element.type = "code" -> 30
    [] OTHER -> 20

\* The height of the content: the heights and the spacings between elements.
RECURSIVE contentHeight(_)
contentHeight(elements) ==
  IF Len(elements) = 1 THEN statedHeight(elements[1])
  ELSE statedHeight(elements[1]) + statedSpacing(elements[1])
       + contentHeight(Tail(elements))

\* C23: in the result of layout, consecutive elements are height(e[k]) +
\* spacing(e[k]) apart, with the heights and spacings the specification
\* tabulates, centered or not; so y increases strictly with the order.
C23_ConsecutiveGapIsHeightPlusSpacing ==
  laidOut.pc = "returned" =>
    /\ Len(laidOut.y) = Len(laidOut.slide.elements)
    /\ \A k \in 1..(Len(laidOut.y) - 1) :
         /\ laidOut.y[k + 1] - laidOut.y[k] =
              2 * (statedHeight(laidOut.slide.elements[k])
                   + statedSpacing(laidOut.slide.elements[k]))
         /\ laidOut.y[k + 1] > laidOut.y[k]

\* C23 witness: three elements, among them a paragraph of two lines that is
\* followed by another element, too tall together to be centered.
C23_Witness ==
  /\ laidOut.pc = "returned"
  /\ Len(laidOut.y) = MaxElements
  /\ laidOut.y[1] = 2 * DEFAULT_CONFIG.padding
  /\ laidOut.slide.elements[1].type = "paragraph"
  /\ laidOut.slide.elements[2].type = "code"
  /\ laidOut.slide.elements[3].type = "table"

\* C24: when the height of the content is less than the usable vertical
\* space (canvas height minus twice the padding), every y is the position of
\* the pass shifted down by half the slack (usable space minus content
\* height), so that the content has the same margin above and below;
\* otherwise no y is shifted and the first element is at the top padding.
C24_ShortContentIsCentered ==
  laidOut.pc = "returned" =>
    LET elements == laidOut.slide.elements
        usable == DEFAULT_CONFIG.height - 2 * DEFAULT_CONFIG.padding
        consumed == contentHeight(elements)
        slack == IF consumed < usable THEN usable - consumed ELSE 0
    IN /\ \A k \in 1..Len(elements) :
            laidOut.y[k] = 2 * currentY(elements, k - 1) + slack
       /\ consumed < usable =>
            laidOut.y[1] = 2 * DEFAULT_CONFIG.height - (laidOut.y[1] + 2 * consumed)
       /\ consumed >= usable => laidOut.y[1] = 2 * DEFAULT_CONFIG.padding

(***************************************************************************)
(* CrystalImage: Dormant and Revealed (isShattered), the shatter and the   *)
(* reform animation (isAnimating), and the handlers of RoomScene that      *)
(* deliver ship and laser contacts to a crystal and to its close button.   *)
(* crystalImage.sprites[c] holds the fields of crystal c and the set of    *)
(* its pending timers and tweens; crystalImage.event records the handler   *)
(* that ran last.                                                          *)
(***************************************************************************)
\* Crystals of the slide.
MaxCrystals == 2

\* A CrystalImage after its constructor; texture tells whether the scene's
\* texture manager holds the image.
CrystalImage(texture) ==
  [isShattered |-> FALSE, isAnimating |-> FALSE, closeButton |-> FALSE,
   pending |-> {}, texture |-> texture]

\* CrystalImage.isActivated
isActivated(cr) == cr.isShattered

\* CrystalImage.shatter: both flags are set, and revealImage is scheduled.
shatter(cr) ==
  [cr EXCEPT !.isShattered = TRUE, !.isAnimating = TRUE,
             !.pending = @ \cup { "revealImage" }]

\* CrystalImage.reform: isAnimating is set, the close button (when there is
\* one) starts to shrink, and reformCrystal is scheduled.
reform(cr) ==
  [cr EXCEPT !.isAnimating = TRUE,
             !.pending = (@ \cup { "reformCrystal" })
                           \cup (IF cr.closeButton THEN { "closeButtonTween" } ELSE {})]

\* CrystalImage.onCollision
onCollision(cr) ==
  IF cr.isAnimating THEN cr
  ELSE IF cr.isShattered THEN reform(cr)
  ELSE shatter(cr)

\* triggerReform without its test of isAnimating.
triggerReform_WhileAnimating(cr) == IF cr.isShattered THEN reform(cr) ELSE cr

\* CrystalImage.triggerReform
triggerReform(cr) == IF cr.isShattered /\ ~cr.isAnimating THEN reform(cr) ELSE cr

\* displayImage and createPlaceholder: the materialize tween is added and
\* the close button created.
displayImage(cr) ==
  [cr EXCEPT !.pending = @ \cup { "materialize" }, !.closeButton = TRUE]

\* What is recorded of a handler's run: the crystal, the handler, and for a
\* contact whether it changed the crystal.
CrystalEvent(c, op, accepted) == [crystal |-> c, op |-> op, accepted |-> accepted]

\* The handler ran on crystal c and left it as after.
CrystalStep(c, op, after) ==
  /\ crystalImage' =
       [sprites |-> [crystalImage.sprites EXCEPT ![c] = after],
        event |-> CrystalEvent(c, op, after # crystalImage.sprites[c])]
  /\ UNCHANGED << vars, parser, laidOut, richText, table, textObstacle >>

\* The overlap callbacks of addCrystalCollisions: the ship, a laser.
Overlap(cr) == IF ~isActivated(cr) THEN onCollision(cr) ELSE cr

ShipOverlapsCrystal(c) ==
  CrystalStep(c, "shipOverlap", Overlap(crystalImage.sprites[c]))

LaserOverlapsCrystal(c) ==
  CrystalStep(c, "laserOverlap", Overlap(crystalImage.sprites[c]))

\* checkCloseButtonCollisions: the ship, a laser within reach of the button.
AtCloseButton(cr) ==
  IF cr.closeButton /\ isActivated(cr) THEN triggerReform(cr) ELSE cr

ShipAtCloseButton(c) ==
  /\ crystalImage.sprites[c].closeButton
  /\ CrystalStep(c, "shipAtButton", AtCloseButton(crystalImage.sprites[c]))

LaserAtCloseButton(c) ==
  /\ crystalImage.sprites[c].closeButton
  /\ CrystalStep(c, "laserAtButton", AtCloseButton(crystalImage.sprites[c]))

\* The delayedCall of shatter fires: revealImage.
RevealImage(c) ==
  LET cr == crystalImage.sprites[c]
      fired == [cr EXCEPT !.pending = @ \ { "revealImage" }]
  IN /\ "revealImage" \in cr.pending
     /\ CrystalStep(c, "revealImage",
          IF cr.texture THEN displayImage(fired)
          ELSE [fired EXCEPT !.pending = @ \cup { "load" }])

\* The loader's 'complete' event: the image, or the placeholder.
LoadComplete(c, ok) ==
  LET cr == crystalImage.sprites[c] IN
  /\ "load" \in cr.pending
  /\ CrystalStep(c, "loadComplete",
       displayImage([cr EXCEPT !.pending = @ \ { "load" }, !.texture = ok]))

\* onComplete of the materialize tween (of the image or of the placeholder).
MaterializeComplete(c) ==
  LET cr == crystalImage.sprites[c] IN
  /\ "materialize" \in cr.pending
  /\ CrystalStep(c, "materializeComplete",
       [cr EXCEPT !.pending = @ \ { "materialize" }, !.isAnimating = FALSE])

\* onComplete of the tween that shrinks the close button (200 ms).
CloseButtonTweenComplete(c) ==
  LET cr == crystalImage.sprites[c] IN
  /\ "closeButtonTween" \in cr.pending
  /\ CrystalStep(c, "closeButtonTweenComplete",
       [cr EXCEPT !.pending = @ \ { "closeButtonTween" }, !.closeButton = FALSE])

\* The delayedCall of reform fires (300 ms, after the close button's tween):
\* reformCrystal, which schedules the crystal's reappearance.
ReformCrystal(c) ==
  LET cr == crystalImage.sprites[c] IN
  /\ "reformCrystal" \in cr.pending
  /\ "closeButtonTween" \notin cr.pending
  /\ CrystalStep(c, "reformCrystal",
       [cr EXCEPT !.pending = (@ \ { "reformCrystal" }) \cup { "showCrystal" }])

\* The delayedCall of reformCrystal fires: the crystal is shown again and the
\* inner glow's tween added.
ShowCrystal(c) ==
  LET cr == crystalImage.sprites[c] IN
  /\ "showCrystal" \in cr.pending
  /\ CrystalStep(c, "showCrystal",
       [cr EXCEPT !.pending = (@ \ { "showCrystal" }) \cup { "innerGlowTween" }])

\* onComplete of the inner glow's tween: the crystal is Dormant again.
InnerGlowComplete(c) ==
  LET cr == crystalImage.sprites[c] IN
  /\ "innerGlowTween" \in cr.pending
  /\ CrystalStep(c, "innerGlowComplete",
       [cr EXCEPT !.pending = @ \ { "innerGlowTween" },
                  !.isShattered = FALSE, !.isAnimating = FALSE])

CrystalInit ==
  /\ SceneUnused
  /\ parser = NoCall
  /\ laidOut = NoCall
  /\ richText = NoCall
  /\ table = NoCall
  /\ textObstacle = NoCall
  /\ \E textures \in [1..MaxCrystals -> BOOLEAN] :
       crystalImage =
         [sprites |-> [c \in 1..MaxCrystals |-> CrystalImage(textures[c])],
          event |-> CrystalEvent(0, "created", FALSE)]

CrystalNext ==
  \E c \in 1..MaxCrystals :
    \/ ShipOverlapsCrystal(c)
    \/ LaserOverlapsCrystal(c)
    \/ ShipAtCloseButton(c)
    \/ LaserAtCloseButton(c)
    \/ RevealImage(c)
    \/ \E ok \in BOOLEAN : LoadComplete(c, ok)
    \/ MaterializeComplete(c)
    \/ CloseButtonTweenComplete(c)
    \/ ReformCrystal(c)
    \/ ShowCrystal(c)
    \/ InnerGlowComplete(c)

CrystalSpec == CrystalInit /\ [][CrystalNext]_<< vars, pureVars >>

\* The handlers that deliver a contact: on the crystal, on its close button.
CrystalContacts == { "shipOverlap", "laserOverlap" }

ButtonContacts == { "shipAtButton", "laserAtButton" }

\* The timers and tweens of a crystal's shatter or reform animation.
animationOf(cr) == cr.pending \ { "closeButtonTween" }

\* C27: isShattered changes only as the effect of an accepted contact: it
\* becomes true in the step of a ship or laser contact on a Dormant crystal
\* at rest, and false at the end of the reform that a ship or laser contact
\* on the close button of a Revealed crystal at rest has started. Such a
\* contact starts exactly one animation, which ends once. A contact that
\* arrives while a shatter or reform is in progress (isAnimating) changes
\* nothing of the crystal and starts no animation; no other crystal is
\* touched.
C27_ToggledOnlyByAcceptedContact ==
  [][ \A c \in 1..MaxCrystals :
        LET b == crystalImage.sprites[c]
            a == crystalImage'.sprites[c]
            e == crystalImage'.event
            contact == e.crystal = c /\ e.op \in (CrystalContacts \cup ButtonContacts)
        IN /\ e.crystal # c => a = b
           /\ b.isAnimating <=> animationOf(b) # {}
           /\ Cardinality(animationOf(b)) <= 1
           /\ (contact /\ b.isAnimating) => (a = b /\ ~e.accepted)
           /\ (contact /\ ~e.accepted) => a = b
           /\ (contact /\ e.accepted) =>
                /\ ~b.isAnimating /\ a.isAnimating
                /\ Cardinality(animationOf(a)) = 1
                /\ IF e.op \in CrystalContacts
                   THEN ~b.isShattered /\ a.isShattered
                        /\ animationOf(a) = { "revealImage" }
                   ELSE b.isShattered /\ a.isShattered /\ b.closeButton
                        /\ animationOf(a) = { "reformCrystal" }
           /\ a.isShattered # b.isShattered =>
                /\ e.crystal = c
                /\ \/ e.op \in CrystalContacts /\ e.accepted /\ a.isShattered
                   \/ /\ e.op = "innerGlowComplete"
                      /\ ~a.isShattered /\ ~a.isAnimating /\ a.pending = {} ]_allVars

\* C27 witness: a laser reached the close button of a crystal whose reform
\* was in progress (the button had not finished shrinking) and was ignored;
\* the other crystal, whose image is not loaded, is Dormant.
C27_Witness ==
  /\ crystalImage.event = CrystalEvent(1, "laserAtButton", FALSE)
  /\ crystalImage.sprites[1].isShattered
  /\ crystalImage.sprites[1].isAnimating
  /\ "reformCrystal" \in crystalImage.sprites[1].pending
  /\ crystalImage.sprites[1].closeButton
  /\ ~crystalImage.sprites[2].isShattered
  /\ ~crystalImage.sprites[2].texture

(***************************************************************************)
(* TextObstacle: Resting and Highlighted (isHovered), the hover timeout    *)
(* that ends the highlight, the flash of a laser hit (isFlashing), and     *)
(* destroy. textObstacle.sprites[o] holds the fields of text object o,     *)
(* textObstacle.window the timeouts of the browser window that are pending *)
(* and the next timeout ID, textObstacle.event the handler that ran last.  *)
(***************************************************************************)
\* Text objects of the slide.
MaxObstacles == 2

\* Calls of window.setTimeout that are followed.
MaxTimeouts == 4

\* A TextObstacle after its constructor. hoverTimeout = 0 stands for
\* undefined; the IDs that window.setTimeout returns are positive.
TextObstacle ==
  [isHovered |-> FALSE, hoverTimeout |-> 0, isFlashing |-> FALSE,
   flash |-> {}, destroyed |-> FALSE]

\* window.setTimeout(callback of obstacle o): a new pending timeout with the
\* next ID.
setTimeout(win, o) ==
  [pending |-> win.pending \cup { [id |-> win.next, obstacle |-> o] },
   next |-> win.next + 1]

\* window.clearTimeout(id): nothing happens when no such timeout is pending.
clearTimeout(win, id) ==
  [win EXCEPT !.pending = { t \in @ : t.id # id }]

\* TextObstacle.startHover
startHover(ob) ==
  IF ob.isHovered THEN ob ELSE [ob EXCEPT !.isHovered = TRUE]

\* TextObstacle.endHover
endHover(ob) ==
  IF ~ob.isHovered THEN ob ELSE [ob EXCEPT !.isHovered = FALSE]

\* startOrRenewHover without the clearTimeout of the timeout it holds.
startOrRenewHover_KeepsOldTimeout(o, ob, win) ==
  LET hovered == IF ~ob.isHovered THEN startHover(ob) ELSE ob
  IN [sprite |-> [hovered EXCEPT !.hoverTimeout = win.next],
      window |-> setTimeout(win, o)]

\* TextObstacle.startOrRenewHover: the highlight starts unless it is on, the
\* timeout held is cleared, and a new one is set and held.
startOrRenewHover(o, ob, win) ==
  LET hovered == IF ~ob.isHovered THEN startHover(ob) ELSE ob
      cleared == IF ob.hoverTimeout # 0
                 THEN clearTimeout(win, ob.hoverTimeout) ELSE win
  IN [sprite |-> [hovered EXCEPT !.hoverTimeout = cleared.next],
      window |-> setTimeout(cleared, o)]

\* TextObstacle.onCollision: the ship renews the hover; a laser starts the
\* flash unless one is running.
TextObstacle_onCollision(o, ob, win, source) ==
  IF source = "ship" THEN startOrRenewHover(o, ob, win)
  ELSE IF ob.isFlashing THEN [sprite |-> ob, window |-> win]
  ELSE [sprite |-> [ob EXCEPT !.isFlashing = TRUE, !.flash = { "flashTween" }],
        window |-> win]

\* TextObstacle.destroy: the timeout held is cleared, the body and the
\* container are destroyed.
TextObstacle_destroy(ob, win) ==
  [sprite |-> [ob EXCEPT !.destroyed = TRUE],
   window |-> IF ob.hoverTimeout # 0
              THEN clearTimeout(win, ob.hoverTimeout) ELSE win]

\* What is recorded of a handler's run.
TextEvent(o, op) == [obstacle |-> o, op |-> op]

\* A handler ran on text object o and left it and the window as in after.
TextStep(o, op, after) ==
  /\ textObstacle' =
       [textObstacle EXCEPT !.sprites[o] = after.sprite,
                            !.window = after.window,
                            !.event = TextEvent(o, op)]
  /\ UNCHANGED << vars, parser, laidOut, richText, table, crystalImage >>

\* RoomScene.addObstacleCollisions, ship overlap: the physics engine reports
\* the ship over the body of a live text object. Nothing is done while the
\* ship is over a revealed crystal image.
ShipOverlapsText(o, overCrystalImage) ==
  LET ob == textObstacle.sprites[o]
      win == textObstacle.window
  IN /\ ~ob.destroyed
     /\ win.next <= MaxTimeouts
     /\ IF overCrystalImage
        THEN TextStep(o, "shipOverCrystal", [sprite |-> ob, window |-> win])
        ELSE TextStep(o, "shipOverlap", TextObstacle_onCollision(o, ob, win, "ship"))

\* RoomScene.addObstacleCollisions, laser overlap.
LaserOverlapsText(o) ==
  LET ob == textObstacle.sprites[o]
      win == textObstacle.window
  IN /\ ~ob.destroyed
     /\ TextStep(o, "laserOverlap", TextObstacle_onCollision(o, ob, win, "laser"))

\* The window runs the callback of a pending timeout: endHover of the text
\* object that set it.
HoverTimeoutFires(id) ==
  \E t \in textObstacle.window.pending :
    /\ t.id = id
    /\ TextStep(t.obstacle, "hoverTimeout",
         [sprite |-> endHover(textObstacle.sprites[t.obstacle]),
          window |-> [textObstacle.window EXCEPT !.pending = @ \ { t }]])

\* playFlashEffect: the flash tween completes and schedules the restore of
\* the colour.
FlashTweenComplete(o) ==
  LET ob == textObstacle.sprites[o] IN
  /\ "flashTween" \in ob.flash
  /\ TextStep(o, "flashTweenComplete",
       [sprite |-> [ob EXCEPT !.flash = { "restoreColor" }],
        window |-> textObstacle.window])

\* playFlashEffect: the delayed call restores the colour and ends the flash.
FlashRestore(o) ==
  LET ob == textObstacle.sprites[o] IN
  /\ "restoreColor" \in ob.flash
  /\ TextStep(o, "flashRestore",
       [sprite |-> [ob EXCEPT !.flash = {}, !.isFlashing = FALSE],
        window |-> textObstacle.window])

\* SlideManager.clearCurrentSlide destroys a text object of the slide.
DestroyText(o) ==
  LET ob == textObstacle.sprites[o] IN
  /\ ~ob.destroyed
  /\ TextStep(o, "destroy", TextObstacle_destroy(ob, textObstacle.window))

TextInit ==
  /\ SceneUnused
  /\ parser = NoCall
  /\ laidOut = NoCall
  /\ richText = NoCall
  /\ table = NoCall
  /\ crystalImage = NoCall
  /\ textObstacle =
       [sprites |-> [o \in 1..MaxObstacles |-> TextObstacle],
        window |-> [pending |-> {}, next |-> 1],
        event |-> TextEvent(0, "created")]

TextNext ==
  \/ \E o \in 1..MaxObstacles :
       \/ \E overCrystalImage \in BOOLEAN : ShipOverlapsText(o, overCrystalImage)
       \/ LaserOverlapsText(o)
       \/ FlashTweenComplete(o)
       \/ FlashRestore(o)
       \/ DestroyText(o)
  \/ \E id \in 1..MaxTimeouts : HoverTimeoutFires(id)

TextSpec == TextInit /\ [][TextNext]_allVars

\* The window runs the callback of every timeout that stays pending.
TextFairSpec ==
  TextSpec /\ \A id \in 1..MaxTimeouts : WF_allVars(HoverTimeoutFires(id))

\* The pending timeouts that text object o has set.
timeoutsOf(st, o) == { t \in st.window.pending : t.obstacle = o }

\* C28: every ship touch that reaches a text object removes the hover
\* timeout that was pending for it and sets a new one, so that at most one is
\* pending for the object at any time; the object is Highlighted for as long
\* as that timeout is pending, each touch before it runs out keeping the
\* highlight on; the highlight ends only when the timeout runs out, and a
\* Highlighted object that is not destroyed returns to Resting, touches being
\* finitely many; destroy removes the pending timeout. A laser hit changes
\* neither the highlight nor the timeouts.
C28_HoverTimeoutIsDebounced ==
  /\ [](\A o \in 1..MaxObstacles :
          LET ob == textObstacle.sprites[o]
              mine == timeoutsOf(textObstacle, o)
          IN /\ Cardinality(mine) <= 1
             /\ \A t \in mine : ob.isHovered /\ ob.hoverTimeout = t.id
             /\ (ob.isHovered /\ ~ob.destroyed) => mine # {}
             /\ ob.destroyed => mine = {})
  /\ [][ \A o \in 1..MaxObstacles :
           LET b == textObstacle.sprites[o]
               a == textObstacle'.sprites[o]
               before == timeoutsOf(textObstacle, o)
               after == timeoutsOf(textObstacle', o)
               e == textObstacle'.event
           IN /\ e.obstacle # o => (a = b /\ after = before)
              /\ (e.obstacle = o /\ e.op = "shipOverlap") =>
                   /\ a.isHovered
                   /\ after \cap before = {}
                   /\ after = { [id |-> textObstacle.window.next, obstacle |-> o] }
              /\ (e.obstacle = o /\ e.op \in { "shipOverCrystal", "laserOverlap" }) =>
                   (a.isHovered = b.isHovered /\ after = before)
              /\ (b.isHovered /\ ~a.isHovered) =>
                   (e = TextEvent(o, "hoverTimeout") /\ before # {} /\ after = {})
              /\ (e.obstacle = o /\ e.op = "destroy") => after = {} ]_allVars
  /\ \A o \in 1..MaxObstacles :
       (textObstacle.sprites[o].isHovered /\ ~textObstacle.sprites[o].destroyed)
         ~> (~textObstacle.sprites[o].isHovered \/ textObstacle.sprites[o].destroyed)

\* C28 witness: text object 1 was touched repeatedly and returned to Resting
\* when the timeout it held, the fourth that was set, ran out; text object 2
\* was destroyed while Highlighted, and no timeout is left pending.
C28_Witness ==
  /\ textObstacle.event = TextEvent(1, "hoverTimeout")
  /\ textObstacle.sprites[1].hoverTimeout = 4
  /\ ~textObstacle.sprites[1].isHovered
  /\ textObstacle.sprites[2].destroyed
  /\ textObstacle.sprites[2].isHovered
  /\ textObstacle.window.pending = {}

====
